---- MODULE Spec2Model ----
(***************************************************************************)
(* Narrator identity resolution and chain normalization (mki-etl,          *)
(* sanad_extraction).                                                      *)
(*                                                                         *)
(* A name is a sequence of one-character strings.  Arabic characters are   *)
(* written in Buckwalter transliteration:                                  *)
(*   "A" U+0627 alif      ">" U+0623 alif-hamza-above                      *)
(*   "<" U+0625 alif-hamza-below   "|" U+0622 alif-madda                   *)
(*   "b" U+0628  "p" U+0629 taa marbuta  "t" U+062A  "j" U+062C            *)
(*   "x" U+062E  "d" U+062F  "r" U+0631  "z" U+0632  "s" U+0633            *)
(*   "E" U+0639  "f" U+0641  "l" U+0644  "m" U+0645  "n" U+0646            *)
(*   "h" U+0647  "w" U+0648  "Y" U+0649 alif maqsura  "y" U+064A           *)
(*   "_" U+0640 tatweel   "$" U+0634 sheen   "}" U+0626 yaa-hamza          *)
(*   "H" U+062D  "k" U+0643  "q" U+0642  "&" U+0624 waw-hamza              *)
(*   "a" U+064E fatha  "u" U+064F damma  "i" U+0650 kasra                  *)
(*   "~" U+0651 shadda "o" U+0652 sukun  "e" U+0670 dagger alif            *)
(*   "^" U+0653 maddah above                                               *)
(*   " " space   "(" ")" parentheses   "," comma   ";" U+060C Arabic comma *)
(***************************************************************************)
EXTENDS Integers, Sequences, FiniteSets, TLC

VARIABLES
    \* a run of the Text Normalizer on one name
    norm_pc, norm_variant, norm_text, norm_once, norm_twice,
    \* build_narrator_database.main: clustering, then the database
    \* (narrators_grouped.json); merge_narrator_research.main on that file:
    \* the research entries, the lookup index and the locals of its loop
    db_pc, db_narrators, db_rawis_index, db_idx, db_groups, db_database,
    db_research, db_lookup_index, db_merge,
    \* extract_sanad_normalized.main: the dataset rows, the loop position and
    \* the tables of build_normalized_data; narrators.json and chains.json
    \* in public/data/hadith, where save_normalized_files writes them, and in
    \* json-datasets, where resolve_kinship.main reads them
    bld_pc, bld_rows, bld_i, bld_narrator_to_id, bld_chain_to_id,
    bld_chain_id_to_narrator_ids, bld_hadith_chain_lookup,
    bld_next_narrator_id, bld_next_chain_id, fs_narrators, fs_chains,
    json_present, json_narrators, json_chains,
    \* resolve_kinship.main: the loaded files and maps, the loop position
    \* (chain, pos), the result, and the resolved_name of each occurrence
    kin_pc, kin_narrators, kin_chains, kin_known_fathers, kin_narrator_to_father,
    kin_c, kin_pos, kin_resolutions, kin_stats, kin_resolved_names,
    \* validate_chains.main for one record: the two name lists, the result of
    \* chains_match with the number of name comparisons made, the counters
    \* and the mismatch list
    val_pc, val_json_names, val_csv_names, val_result, val_stats, val_mismatches,
    \* one of the four matching programs: which one runs (mt_pc), the indexes
    \* and alias table it built, the lookup cache of the CSV step, the number
    \* of calls made, the last call and its result
    mt_pc, mt_rawi_index, mt_csv_index, mt_narrator_index, mt_aliases, mt_cache,
    mt_calls, mt_call, mt_result,
    \* one of the three correction programs, run any number of times: which
    \* one (cor_prog), idle or in its loop (cor_pc), the input files
    \* (mismatched_chains.json, the nameAr fields of narrators.json,
    \* narrator_aliases.json), the environment's answer for each record, the
    \* files the programs write, the local variables of the run, what the
    \* last iteration did, and the files a stopped save_json left short
    cor_prog, cor_pc, cor_mismatches, cor_narrators, cor_aliases, cor_replies,
    cor_file_chains, cor_file_progress, cor_file_skipped, cor_file_unfixable,
    cor_file_still_unfixable, cor_mem, cor_last, cor_cut,
    \* enrich_narrators.main: the narrators list, the three indexes, the loop
    \* position, the locals of enrich_narrators and the statistics it returns
    en_pc, en_narrators, en_rawi_index, en_manual_index, en_kinship_index, en_i,
    en_st, en_stats,
    \* translate_seera.main: where it stands, the events CSV, the progress file,
    \* the output CSV, the locals of main, the answers the oracle gave in this
    \* run, the number of runs started, and whether a stopped save_progress
    \* left the progress file short
    tr_pc, tr_events, tr_file_progress, tr_file_output, tr_m, tr_calls, tr_runs,
    tr_cut,
    \* the two builders of the biographical index: which one runs, the Arabic
    \* names of the rows of all_rawis.csv, the rows consumed, and the index
    ix_prog, ix_names, ix_i, ix_index

normVars == <<norm_pc, norm_variant, norm_text, norm_once, norm_twice>>
dbVars == <<db_pc, db_narrators, db_rawis_index, db_idx, db_groups, db_database,
            db_research, db_lookup_index, db_merge>>
bldVars == <<bld_pc, bld_rows, bld_i, bld_narrator_to_id, bld_chain_to_id,
             bld_chain_id_to_narrator_ids, bld_hadith_chain_lookup,
             bld_next_narrator_id, bld_next_chain_id, fs_narrators, fs_chains,
             json_present, json_narrators, json_chains>>
kinVars == <<kin_pc, kin_narrators, kin_chains, kin_known_fathers,
             kin_narrator_to_father, kin_c, kin_pos, kin_resolutions, kin_stats,
             kin_resolved_names>>
valVars == <<val_pc, val_json_names, val_csv_names, val_result, val_stats, val_mismatches>>
mtVars == <<mt_pc, mt_rawi_index, mt_csv_index, mt_narrator_index, mt_aliases, mt_cache,
            mt_calls, mt_call, mt_result>>
corVars == <<cor_prog, cor_pc, cor_mismatches, cor_narrators, cor_aliases, cor_replies,
             cor_file_chains, cor_file_progress, cor_file_skipped, cor_file_unfixable,
             cor_file_still_unfixable, cor_mem, cor_last, cor_cut>>
enVars == <<en_pc, en_narrators, en_rawi_index, en_manual_index, en_kinship_index, en_i,
    en_st, en_stats>>
trVars == <<tr_pc, tr_events, tr_file_progress, tr_file_output, tr_m, tr_calls, tr_runs,
           tr_cut>>
ixVars == <<ix_prog, ix_names, ix_i, ix_index>>
vars == <<normVars, dbVars, bldVars, kinVars, valVars, mtVars, corVars, enVars, trVars, ixVars>>

\* what the steps of one program leave alone: the state of the others
normFrame == <<dbVars, bldVars, kinVars, valVars, mtVars, corVars, enVars, trVars, ixVars>>
dbFrame == <<normVars, bldVars, kinVars, valVars, mtVars, corVars, enVars, trVars, ixVars>>
bldFrame == <<normVars, dbVars, valVars, mtVars, corVars, enVars, trVars, ixVars>>
kinFrame == <<normVars, dbVars, valVars, mtVars, corVars, enVars, trVars, ixVars>>
valFrame == <<normVars, dbVars, bldVars, kinVars, mtVars, corVars, enVars, trVars, ixVars>>
mtFrame == <<normVars, dbVars, bldVars, kinVars, valVars, corVars, enVars, trVars, ixVars>>
corFrame == <<normVars, dbVars, bldVars, kinVars, valVars, mtVars, enVars, trVars, ixVars>>
enFrame == <<normVars, dbVars, bldVars, kinVars, valVars, mtVars, corVars, trVars, ixVars>>
trFrame == <<normVars, dbVars, bldVars, kinVars, valVars, mtVars, corVars, enVars, ixVars>>
ixFrame == <<normVars, dbVars, bldVars, kinVars, valVars, mtVars, corVars, enVars, trVars>>

(***************************************************************************)
(* Character classes of the regular expressions.                           *)
(***************************************************************************)
\* [U+064B-U+065F U+0670 ...] of build_narrator_database / enrich_narrators /
\* resolve_kinship, restricted to the characters of the table above.
DIACRITICS == {"a", "u", "i", "~", "o", "e", "^"}

\* [U+064B-U+0652 U+0670] of validate_chains and the fix_* scripts.
TASHKEEL == {"a", "u", "i", "~", "o", "e"}

\* the alif family [U+0625 U+0623 U+0622 U+0627]
AlifVariants == {"<", ">", "|", "A"}

\* [U+0627-U+064A], restricted to the characters of the table above.
AlifToYaa == {"A", "b", "p", "t", "j", "H", "x", "d", "r", "z", "s", "$", "E", "_",
              "f", "q", "k", "l", "m", "n", "h", "w", "Y", "y"}

\* \s and str.split(): the whitespace of the table above.
WhiteSpace == {" "}

(***************************************************************************)
(* Python string primitives on sequences of characters.                    *)
(***************************************************************************)
Min(a, b) == IF a <= b THEN a ELSE b

Max(a, b) == IF a >= b THEN a ELSE b

\* s[i:] with a 0-based start
Drop(s, n) == SubSeq(s, n + 1, Len(s))

\* s.startswith(p)
StartsWith(s, p) == Len(p) <= Len(s) /\ SubSeq(s, 1, Len(p)) = p

\* s.endswith(p)
EndsWith(s, p) == Len(p) <= Len(s) /\ SubSeq(s, Len(s) - Len(p) + 1, Len(s)) = p

\* p occurs in s at 0-based offset i
OccursAt(s, p, i) == i + Len(p) <= Len(s) /\ SubSeq(s, i + 1, i + Len(p)) = p

\* p in s
Contains(s, p) == \E i \in 0..(Len(s) - Len(p)) : OccursAt(s, p, i)

\* s.find(p): the least 0-based offset, -1 when absent
Find(s, p) ==
    IF Contains(s, p)
    THEN CHOOSE i \in 0..(Len(s) - Len(p)) :
            OccursAt(s, p, i) /\ \A j \in 0..(i - 1) : ~OccursAt(s, p, j)
    ELSE -1

\* re.sub(r'[class]', '', s)
RemoveChars(s, class) == SelectSeq(s, LAMBDA c : c \notin class)

\* re.sub(r'[class]', to, s)
ReplaceChars(s, class, to) == [i \in 1..Len(s) |-> IF s[i] \in class THEN to ELSE s[i]]

\* s.lstrip() / s.rstrip() / s.strip()
RECURSIVE LStrip(_)
LStrip(s) == IF s /= <<>> /\ s[1] \in WhiteSpace THEN LStrip(Tail(s)) ELSE s

RECURSIVE RStrip(_)
RStrip(s) ==
    IF s /= <<>> /\ s[Len(s)] \in WhiteSpace THEN RStrip(SubSeq(s, 1, Len(s) - 1)) ELSE s

Strip(s) == LStrip(RStrip(s))

\* s.split(): the maximal runs of non-whitespace, in order
RECURSIVE SplitFrom(_, _, _, _)
SplitFrom(s, i, cur, acc) ==
    IF i > Len(s)
    THEN IF cur = <<>> THEN acc ELSE Append(acc, cur)
    ELSE IF s[i] \in WhiteSpace
         THEN SplitFrom(s, i + 1, <<>>, IF cur = <<>> THEN acc ELSE Append(acc, cur))
         ELSE SplitFrom(s, i + 1, Append(cur, s[i]), acc)

Split(s) == SplitFrom(s, 1, <<>>, <<>>)

\* ' '.join(words)
RECURSIVE Join(_)
Join(words) ==
    IF words = <<>> THEN <<>>
    ELSE IF Len(words) = 1 THEN words[1]
    ELSE words[1] \o <<" ">> \o Join(Tail(words))

\* set(s.split())
WordSet(s) == {Split(s)[i] : i \in 1..Len(Split(s))}

\* re.sub(r'\s+', ' ', s): every whitespace run becomes one space
RECURSIVE CollapseFrom(_, _, _)
CollapseFrom(s, i, acc) ==
    IF i > Len(s) THEN acc
    ELSE IF s[i] \in WhiteSpace
         THEN IF i > 1 /\ s[i - 1] \in WhiteSpace
              THEN CollapseFrom(s, i + 1, acc)
              ELSE CollapseFrom(s, i + 1, Append(acc, " "))
         ELSE CollapseFrom(s, i + 1, Append(acc, s[i]))

CollapseSpaces(s) == CollapseFrom(s, 1, <<>>)

\* re.sub(r'^<prefix>\s+', '', s): the prefix and the whitespace run after it
StripPrefixSpaces(s, prefix) ==
    IF StartsWith(s, prefix) /\ Len(s) > Len(prefix) /\ s[Len(prefix) + 1] \in WhiteSpace
    THEN LStrip(Drop(s, Len(prefix)))
    ELSE s

\* re.sub(r'^<word>\s', to + ' ', s)
SubWordAtStart(s, word, to) ==
    IF StartsWith(s, word) /\ Len(s) > Len(word) /\ s[Len(word) + 1] \in WhiteSpace
    THEN to \o <<" ">> \o Drop(s, Len(word) + 1)
    ELSE s

\* re.sub(r'\s<word>\s', ' ' + to + ' ', s): leftmost non-overlapping matches;
\* a match consumes both of its whitespace characters.
RECURSIVE SubWordInsideFrom(_, _, _, _, _)
SubWordInsideFrom(s, word, to, i, acc) ==
    IF i > Len(s) THEN acc
    ELSE IF /\ s[i] \in WhiteSpace
            /\ OccursAt(s, word, i)
            /\ i + Len(word) + 1 <= Len(s)
            /\ s[i + Len(word) + 1] \in WhiteSpace
         THEN SubWordInsideFrom(s, word, to, i + Len(word) + 2,
                                acc \o <<" ">> \o to \o <<" ">>)
         ELSE SubWordInsideFrom(s, word, to, i + 1, Append(acc, s[i]))

SubWordInside(s, word, to) == SubWordInsideFrom(s, word, to, 1, <<>>)

(***************************************************************************)
(* Text Normalizer                                                         *)
(***************************************************************************)
\* a leading waw removed whatever follows it, the lookahead left out
StripLeadingWawAlways(s) ==
    IF Len(s) >= 1 /\ s[1] = "w" THEN Tail(s) ELSE s

\* re.sub(r'^w(?=[A-y])', '', text): one leading waw before a character of the range
StripLeadingWaw(s) ==
    IF Len(s) >= 2 /\ s[1] = "w" /\ s[2] \in AlifToYaa THEN Tail(s) ELSE s

\* the letter unification shared by every normalizer: alif, taa marbuta, yaa
UnifyLetters(s) ==
    ReplaceChars(ReplaceChars(ReplaceChars(s, AlifVariants, "A"), {"p"}, "h"), {"Y"}, "y")

\* the four kunyah rewrites, in the order of the code
NormalizeKunyah(s) ==
    LET k1 == SubWordAtStart(s, <<"A", "b", "y">>, <<"A", "b", "w">>)
        k2 == SubWordAtStart(k1, <<"A", "b", "A">>, <<"A", "b", "w">>)
        k3 == SubWordInside(k2, <<"A", "b", "y">>, <<"A", "b", "w">>)
        k4 == SubWordInside(k3, <<"A", "b", "A">>, <<"A", "b", "w">>)
    IN  k4

\* build_narrator_database.normalize_arabic
normalize_arabic(text) ==
    IF text = <<>> THEN <<>>
    ELSE LET t1 == RemoveChars(text, DIACRITICS)
             t2 == StripLeadingWaw(t1)
             t3 == UnifyLetters(t2)
             t4 == NormalizeKunyah(t3)
         IN  Strip(Join(Split(t4)))

\* enrich_narrators.normalize_arabic
normalize_arabic_enrich(text) ==
    IF text = <<>> THEN <<>>
    ELSE LET t1 == RemoveChars(text, DIACRITICS)
             p1 == StripPrefixSpaces(t1, <<"w", "E", "n">>)
             p2 == StripPrefixSpaces(p1, <<"f", "E", "n">>)
             p3 == StripPrefixSpaces(p2, <<"E", "n">>)
             t2 == StripLeadingWaw(p3)
             t3 == UnifyLetters(t2)
             t4 == NormalizeKunyah(t3)
         IN  Strip(Join(Split(t4)))

\* validate_chains / fix_chains_from_csv / fix_chains_gemini / fix_skipped_chains
\* normalize_arabic (the same five substitutions in each file)
normalize_arabic_cmp(text) ==
    Strip(CollapseSpaces(UnifyLetters(RemoveChars(text, TASHKEEL))))

\* resolve_kinship.normalize
normalize(text) == UnifyLetters(RemoveChars(text, DIACRITICS))

(***************************************************************************)
(* Python dict: the (key, value) pairs in insertion order, keys distinct.  *)
(***************************************************************************)
DictHas(d, k) == \E i \in 1..Len(d) : d[i][1] = k

DictIndex(d, k) == CHOOSE i \in 1..Len(d) : d[i][1] = k

\* d[k]
DictGet(d, k) == d[DictIndex(d, k)][2]

\* d[k] = v: an existing key keeps its place
DictSet(d, k, v) ==
    IF DictHas(d, k)
    THEN [d EXCEPT ![DictIndex(d, k)] = <<k, v>>]
    ELSE Append(d, <<k, v>>)

\* list(d.keys())
DictKeys(d) == [i \in 1..Len(d) |-> d[i][1]]

DictKeySet(d) == {d[i][1] : i \in 1..Len(d)}

\* Unicode code point of a character of the table, the order Python compares by
CodePoint(c) ==
    CASE c = " " -> 32   [] c = "(" -> 40   [] c = ")" -> 41   [] c = "," -> 44
      [] c = ";" -> 1548 [] c = "|" -> 1570 [] c = ">" -> 1571 [] c = "<" -> 1573
      [] c = "&" -> 1572
      [] c = "}" -> 1574 [] c = "A" -> 1575 [] c = "b" -> 1576 [] c = "p" -> 1577
      [] c = "t" -> 1578 [] c = "j" -> 1580 [] c = "H" -> 1581 [] c = "x" -> 1582
      [] c = "d" -> 1583 [] c = "r" -> 1585 [] c = "z" -> 1586 [] c = "s" -> 1587
      [] c = "$" -> 1588 [] c = "E" -> 1593 [] c = "_" -> 1600 [] c = "f" -> 1601
      [] c = "q" -> 1602 [] c = "k" -> 1603 [] c = "l" -> 1604 [] c = "m" -> 1605
      [] c = "n" -> 1606 [] c = "h" -> 1607 [] c = "w" -> 1608 [] c = "Y" -> 1609
      [] c = "y" -> 1610 [] c = "a" -> 1614 [] c = "u" -> 1615 [] c = "i" -> 1616
      [] c = "~" -> 1617 [] c = "o" -> 1618 [] c = "^" -> 1619 [] c = "e" -> 1648

\* a < b for Python strings
RECURSIVE StrLess(_, _)
StrLess(a, b) ==
    IF b = <<>> THEN FALSE
    ELSE IF a = <<>> THEN TRUE
    ELSE IF a[1] = b[1] THEN StrLess(Tail(a), Tail(b))
    ELSE CodePoint(a[1]) < CodePoint(b[1])

(***************************************************************************)
(* Variant Clusterer and narrator database (build_narrator_database)       *)
(***************************************************************************)
\* the kinship_terms set of build_narrator_database.is_kinship_term
ClusterKinshipTerms ==
    { <<"A","b","y","h">>, <<"A","b","A","h">>, <<"A","b","w","h">>, <<"A","b","y","h","A">>,
      <<"j","d","h">>, <<"j","d","t","h">>, <<"j","d","h","A">>,
      <<"E","m","h">>, <<"E","m","t","h">>, <<"x","A","l","h">>, <<"x","A","l","t","h">>,
      <<"A","x","y","h">>, <<"A","x","t","h">>, <<"A","x","w","h">>,
      <<"A","m","h">>, <<"A","m","h","A">> }

\* build_narrator_database.is_kinship_term
is_kinship_term(name) == normalize_arabic(name) \in ClusterKinshipTerms

\* an iteration that groups by the text as written
GroupAddRaw(groups, idx, name) ==
    LET old == IF DictHas(groups, name) THEN DictGet(groups, name)
               ELSE [variants |-> <<>>, variant_names |-> <<>>, is_kinship |-> FALSE]
        new == [variants |-> Append(old.variants, idx),
                variant_names |-> Append(old.variant_names, name),
                is_kinship |-> old.is_kinship \/ is_kinship_term(name)]
    IN  DictSet(groups, name, new)

\* one iteration of the loop of group_narrators_by_normalized: narrator idx
\* (0-based) with text name joins the group of its normalized form
GroupAdd(groups, idx, name) ==
    LET normalized == normalize_arabic(name)
        old == IF DictHas(groups, normalized) THEN DictGet(groups, normalized)
               ELSE [variants |-> <<>>, variant_names |-> <<>>, is_kinship |-> FALSE]
        new == [variants |-> Append(old.variants, idx),
                variant_names |-> Append(old.variant_names, name),
                is_kinship |-> old.is_kinship \/ is_kinship_term(name)]
    IN  DictSet(groups, normalized, new)

\* group_narrators_by_normalized on a whole list
RECURSIVE GroupFrom(_, _, _)
GroupFrom(names, i, groups) ==
    IF i > Len(names) THEN groups
    ELSE GroupFrom(names, i + 1, GroupAdd(groups, i - 1, names[i]))

group_narrators_by_normalized(names) == GroupFrom(names, 1, <<>>)

\* create_narrator_database: one entry per group, ids in sorted key order
create_narrator_database(groups, rawis_index) ==
    LET sorted == SortSeq(groups, LAMBDA x, y : StrLess(x[1], y[1]))
    IN  [i \in 1..Len(sorted) |->
            [id |-> i - 1,
             canonicalName |-> sorted[i][1],
             variants |-> sorted[i][2].variants,
             variantNames |-> sorted[i][2].variant_names,
             isKinship |-> sorted[i][2].is_kinship,
             nameAr |-> IF DictHas(rawis_index, sorted[i][1])
                        THEN DictGet(rawis_index, sorted[i][1]).nameAr
                        ELSE sorted[i][1],
             matched |-> DictHas(rawis_index, sorted[i][1]),
             needsResearch |-> ~DictHas(rawis_index, sorted[i][1])]]

(***************************************************************************)
(* merge_narrator_research: research entries merged into the database      *)
(***************************************************************************)
\* "for variant in narrator.get('variantNames', [])": a variant is indexed
\* under its normalized form when that key is free
RECURSIVE LookupVariantsFrom(_, _, _, _)
LookupVariantsFrom(index, variantNames, k, i) ==
    IF k > Len(variantNames) THEN index
    ELSE LookupVariantsFrom(
             IF /\ normalize_arabic(variantNames[k]) /= <<>>
                /\ ~DictHas(index, normalize_arabic(variantNames[k]))
             THEN DictSet(index, normalize_arabic(variantNames[k]), i)
             ELSE index,
             variantNames, k + 1, i)

\* index[canonical] = i and index[canonical.replace(' ', '')] = i: a later
\* entry takes the key of an earlier one
LookupCanonical(index, canonical, i) ==
    IF canonical = <<>> THEN index
    ELSE DictSet(DictSet(index, canonical, i), RemoveChars(canonical, {" "}), i)

\* "for i, narrator in enumerate(narrators)", i counted from 0
RECURSIVE LookupIndexFrom(_, _, _)
LookupIndexFrom(narrators, i, index) ==
    IF i >= Len(narrators) THEN index
    ELSE LookupIndexFrom(narrators, i + 1,
             LookupVariantsFrom(LookupCanonical(index, narrators[i + 1].canonicalName, i),
                                narrators[i + 1].variantNames, 1, i))

build_lookup_index(narrators) == LookupIndexFrom(narrators, 0, <<>>)

\* Strategy 0: the first of matchVariants whose normalized form is a key.
\* A result is <<index>>, <<>> standing for None.
RECURSIVE MatchVariantsFrom(_, _, _)
MatchVariantsFrom(match_variants, k, lookup_index) ==
    IF k > Len(match_variants) THEN <<>>
    ELSE IF DictHas(lookup_index, normalize_arabic(match_variants[k]))
    THEN <<DictGet(lookup_index, normalize_arabic(match_variants[k]))>>
    ELSE MatchVariantsFrom(match_variants, k + 1, lookup_index)

\* Strategy 1: the normalized canonical name, then the same without spaces
MatchCanonical(canonical, lookup_index) ==
    IF canonical = <<>> THEN <<>>
    ELSE IF DictHas(lookup_index, normalize_arabic(canonical))
    THEN <<DictGet(lookup_index, normalize_arabic(canonical))>>
    ELSE IF DictHas(lookup_index, RemoveChars(normalize_arabic(canonical), {" "}))
    THEN <<DictGet(lookup_index, RemoveChars(normalize_arabic(canonical), {" "}))>>
    ELSE <<>>

\* Strategy 2: the normalized kunyah
MatchKunyah(kunyah, lookup_index) ==
    IF kunyah /= <<>> /\ DictHas(lookup_index, normalize_arabic(kunyah))
    THEN <<DictGet(lookup_index, normalize_arabic(kunyah))>>
    ELSE <<>>

\* re.search(r'(\S+)\s+(?:bn|Abn)\s+(\S+)', ...) on the words of a
\* normalized text: the places k of a word followed by a marker and another
\* word; the leftmost match is at the least of them
NasabPlaces(words) ==
    {k \in 1..(Len(words) - 2) : words[k + 1] \in {<<"b", "n">>, <<"A", "b", "n">>}}

\* short_form = f"{match.group(1)} bn {match.group(2)}"
NasabShortForm(words) ==
    LET k == CHOOSE k \in NasabPlaces(words) : \A j \in NasabPlaces(words) : k <= j
    IN  words[k] \o <<" ", "b", "n", " ">> \o words[k + 2]

\* Strategy 3: the short form of the nasab, looked up as it stands
MatchNasab(nasab, lookup_index) ==
    IF /\ nasab /= <<>>
       /\ NasabPlaces(Split(normalize_arabic(nasab))) /= {}
       /\ DictHas(lookup_index, NasabShortForm(Split(normalize_arabic(nasab))))
    THEN <<DictGet(lookup_index, NasabShortForm(Split(normalize_arabic(nasab))))>>
    ELSE <<>>

\* the first of a list of results that is not None
RECURSIVE FirstFound(_)
FirstFound(results) ==
    IF results = <<>> THEN <<>>
    ELSE IF results[1] /= <<>> THEN results[1]
    ELSE FirstFound(Tail(results))

\* match_research_to_narrator.  A research entry is [canonicalName, nameEn,
\* kunyah, nasab, matchVariants], <<>> for a field the entry does not have.
match_research_to_narrator(research, lookup_index) ==
    FirstFound(<<MatchVariantsFrom(research.matchVariants, 1, lookup_index),
                 MatchCanonical(research.canonicalName, lookup_index),
                 MatchKunyah(research.kunyah, lookup_index),
                 MatchNasab(research.nasab, lookup_index)>>)

\* the keys of field_mappings a research entry of the model can carry
ResearchFields == {"canonicalName", "nameEn", "kunyah", "nasab"}

\* merge_research_into_narrator: the fields of the research entry that are
\* not empty replace or extend those of the copy, canonicalName included,
\* and the copy is marked as researched whatever the narrator is
merge_research_into_narrator(narrator, research) ==
    [f \in DOMAIN narrator \cup {g \in ResearchFields : research[g] /= <<>>}
           \cup {"matched", "needsResearch", "researchSource"} |->
        IF f = "matched" THEN TRUE
        ELSE IF f = "needsResearch" THEN FALSE
        ELSE IF f = "researchSource" THEN "manual_web_research"
        ELSE IF f \in ResearchFields /\ research[f] /= <<>> THEN research[f]
        ELSE narrator[f]]

\* one iteration of "for research in research_entries"; m holds the locals
\* narrators, matched and unmatched of main
merge_step(m, research, lookup_index) ==
    LET idx == match_research_to_narrator(research, lookup_index)
    IN  IF idx /= <<>>
        THEN [m EXCEPT !.narrators[idx[1] + 1] =
                           merge_research_into_narrator(@, research),
                       !.matched = @ + 1]
        ELSE [m EXCEPT !.unmatched =
                           Append(@, IF research.canonicalName /= <<>>
                                     THEN research.canonicalName ELSE <<"Unknown">>)]

\* the first place from i on (1-based) whose character is outside the class
RECURSIVE SkipClass(_, _, _)
SkipClass(s, i, class) ==
    IF i <= Len(s) /\ s[i] \in class THEN SkipClass(s, i + 1, class) ELSE i

\* re.sub(pattern, '', s) from place i on, for a pattern that is one of the
\* literals of pats, all of one length, followed by [class]*
RECURSIVE RemovePatternFrom(_, _, _, _)
RemovePatternFrom(s, i, pats, class) ==
    IF i > Len(s) THEN <<>>
    ELSE IF \E p \in pats : OccursAt(s, p, i - 1)
         THEN RemovePatternFrom(s, SkipClass(s, i + Len(CHOOSE p \in pats : TRUE), class),
                                pats, class)
         ELSE <<s[i]>> \o RemovePatternFrom(s, i + 1, pats, class)

\* r'رضي الله عن[هاهم]*': the literal part and the letters that may follow
HONORIFIC_RADI == <<"r", "D", "y", " ", "A", "l", "l", "h", " ", "E", "n">>

HONORIFIC_RADI_TAIL == {"h", "A", "m"}

\* 'صلى الله عليه وسلم', and r'صل[ىي] الله عليه وسلم' with its second spelling
HONORIFIC_SALLA ==
    <<"S", "l", "Y", " ", "A", "l", "l", "h", " ", "E", "l", "y", "h", " ", "w", "s", "l", "m">>

HONORIFIC_SALLA_YAA ==
    <<"S", "l", "y", " ", "A", "l", "l", "h", " ", "E", "l", "y", "h", " ", "w", "s", "l", "m">>

\* r'صلّ[یي] الل[هھ] علي[هھ] وآل[هھ] وسلّم' in the letters of the table
HONORIFIC_SALLA_ALIH ==
    <<"S", "l", "~", "y", " ", "A", "l", "l", "h", " ", "E", "l", "y", "h", " ",
      "w", "|", "l", "h", " ", "w", "s", "l", "~", "m">>

\* re.sub(r'\s*\(\s*$', '', s).strip()
StripTrailingParen(s) ==
    IF RStrip(s) /= <<>> /\ RStrip(s)[Len(RStrip(s))] = "("
    THEN Strip(SubSeq(RStrip(s), 1, Len(RStrip(s)) - 1))
    ELSE Strip(s)

\* the honorifics removed as load_rawis_data does, lines 131-134; part is the
\* run of Arabic letters and spaces the search finds in the name field
clean_honorifics(part) ==
    Strip(RemovePatternFrom(
              Strip(RemovePatternFrom(Strip(part), 1, {HONORIFIC_RADI}, HONORIFIC_RADI_TAIL)),
              1, {HONORIFIC_SALLA, HONORIFIC_SALLA_YAA}, {}))

\* the Arabic name extract_arabic_from_name returns for a name field with the
\* ' ( ' separator, lines 136-147; part is parts[1] of the split
extract_arabic_from_name(part) ==
    StripTrailingParen(
        Strip(RemovePatternFrom(
            Strip(RemovePatternFrom(
                Strip(RemovePatternFrom(Strip(part), 1, {HONORIFIC_RADI},
                                        HONORIFIC_RADI_TAIL)),
                1, {HONORIFIC_SALLA}, {})),
            1, {HONORIFIC_SALLA_ALIH}, {})))

\* "if normalized: rawis_index[normalized] = ..." of load_rawis_data
LoadRawiName(index, arabic_name, scholar_indx) ==
    IF normalize_arabic(arabic_name) = <<>> THEN index
    ELSE DictSet(index, normalize_arabic(arabic_name),
                 [scholar_indx |-> scholar_indx, nameAr |-> arabic_name])

\* one row of build_narrator_database.load_rawis_data: part is the run of
\* Arabic letters and spaces of the row's name field, scholar_indx the
\* row's number
LoadRawiRow(index, part, scholar_indx) ==
    LoadRawiName(index, clean_honorifics(part), scholar_indx)

(***************************************************************************)
(* Chain Builder (extract_sanad_normalized)                                *)
(***************************************************************************)
\* FATHER_PATTERNS, GRANDFATHER_PATTERNS, UNCLE_PATTERNS: the alternatives in
\* the order the regex tries them, each anchored at the start of the term
FATHER_PATTERNS ==
    << <<">","a","b","i","y","h","i">>, <<">","b","y","h">>,
       <<">","a","b","i","y","h","a","A">>, <<">","b","y","h","A">>,
       <<">","a","b","a","A","h","u">>, <<">","b","A","h">> >>

GRANDFATHER_PATTERNS ==
    << <<"j","a","d","i","~","h","i">>, <<"j","d","h">>,
       <<"j","a","d","a","~","t","i","h","i">>, <<"j","d","t","h">> >>

UNCLE_PATTERNS == << <<"E","a","m","i","~","h","i">>, <<"E","m","h">> >>

\* the literal heads of IBN_PATTERN, each followed by \s+(.+)
IBN_PATTERN == << <<"b","o","n","i">>, <<"b","n">>, <<"b","i","n","o","t","i">>, <<"b","n","t">> >>

\* pattern.match(term): some alternative is a prefix of the term
PatternMatches(pattern, term) == \E k \in 1..Len(pattern) : StartsWith(term, pattern[k])

\* pattern.sub('', term): the first alternative that matches is removed
PatternStrip(pattern, term) ==
    IF PatternMatches(pattern, term)
    THEN LET k == CHOOSE k \in 1..Len(pattern) :
                    /\ StartsWith(term, pattern[k])
                    /\ \A j \in 1..(k - 1) : ~StartsWith(term, pattern[j])
         IN  Drop(term, Len(pattern[k]))
    ELSE term

\* re.sub(r'^[;,\s]+', '', s)
RECURSIVE StripLeadingPunct(_)
StripLeadingPunct(s) ==
    IF s /= <<>> /\ s[1] \in ({";", ","} \cup WhiteSpace)
    THEN StripLeadingPunct(Tail(s)) ELSE s

\* the name that follows the relative term inside the term itself
NameAfter(pattern, term) == Strip(StripLeadingPunct(Strip(PatternStrip(pattern, term))))

\* the first element of a sequence of strings that is not empty, <<>> when
\* all are: the first alternative, or the leftmost offset, that matches
FirstNonEmpty(results) ==
    IF \E i \in 1..Len(results) : results[i] /= <<>>
    THEN results[CHOOSE i \in 1..Len(results) :
                    /\ results[i] /= <<>>
                    /\ \A j \in 1..(i - 1) : results[j] = <<>>]
    ELSE <<>>

\* \s+(.+) matched against rest, after being rest without its leading
\* whitespace: \s+ is greedy and gives one whitespace back to (.+) when
\* nothing else is left for it
IbnGroupOf(rest, after) ==
    IF Len(rest) = Len(after) THEN <<>>
    ELSE IF after /= <<>> THEN after
    ELSE IF Len(rest) >= 2 THEN <<rest[Len(rest)]>>
    ELSE <<>>

IbnGroupAfter(rest) == IbnGroupOf(rest, LStrip(rest))

\* head \s+ (.+) matched at 0-based offset i of s: the text of the group, or
\* <<>> when there is no match
IbnGroupAt(s, head, i) ==
    IF OccursAt(s, head, i) THEN IbnGroupAfter(Drop(s, i + Len(head))) ELSE <<>>

\* the first alternative of IBN_PATTERN that matches at offset i
IbnMatchAt(s, i) ==
    FirstNonEmpty([k \in 1..Len(IBN_PATTERN) |-> IbnGroupAt(s, IBN_PATTERN[k], i)])

\* IBN_PATTERN.search(s) and the first non-empty group: the leftmost match,
\* <<>> when the pattern does not occur or s is None or empty
IbnSearch(s) == FirstNonEmpty([i \in 1..Len(s) |-> IbnMatchAt(s, i - 1)])

\* the tail shared by the three branches of resolve_relative_term: the name
\* inside the term if it is longer than 2, else the relative found in the
\* previous narrator's name, else the term itself
ResolveWith(term, name_after, relative) ==
    IF Len(name_after) > 2 THEN name_after
    ELSE IF relative /= <<>> THEN Strip(relative)
    ELSE term

\* resolve_relative_term.  previous_narrator = <<>> stands for None as well as
\* for the empty string: the code only tests its truth value.
resolve_relative_term(term, previous_narrator) ==
    IF PatternMatches(FATHER_PATTERNS, term)
    THEN ResolveWith(term, NameAfter(FATHER_PATTERNS, term), IbnSearch(previous_narrator))
    ELSE IF PatternMatches(GRANDFATHER_PATTERNS, term)
    THEN ResolveWith(term, NameAfter(GRANDFATHER_PATTERNS, term),
                     IbnSearch(IbnSearch(previous_narrator)))
    ELSE IF PatternMatches(UNCLE_PATTERNS, term)
    THEN ResolveWith(term, NameAfter(UNCLE_PATTERNS, term), <<>>)
    ELSE term

\* cleaned = [n.strip() for n in result if n and isinstance(n, str)]
RECURSIVE CleanItems(_)
CleanItems(items) ==
    IF items = <<>> THEN <<>>
    ELSE IF items[1] = <<>> THEN CleanItems(Tail(items))
    ELSE <<Strip(items[1])>> \o CleanItems(Tail(items))

\* resolved[-1] if resolved else None
LastResolved(resolved) == IF resolved /= <<>> THEN resolved[Len(resolved)] ELSE <<>>

\* the loop of parse_sanad_string: each name is resolved against the last
\* name already resolved
RECURSIVE ResolveFrom(_, _, _)
ResolveFrom(cleaned, i, resolved) ==
    IF i > Len(cleaned) THEN resolved
    ELSE ResolveFrom(cleaned, i + 1,
                     Append(resolved,
                            resolve_relative_term(cleaned[i], LastResolved(resolved))))

\* return resolved if resolved else None
SomeNames(resolved) ==
    IF resolved = <<>> THEN [ok |-> FALSE, names |-> <<>>, raised |-> FALSE]
    ELSE [ok |-> TRUE, names |-> resolved, raised |-> FALSE]

\* parse_sanad_string.  A Sanad field is [ok, items, unhashable]: ok is FALSE
\* for a field that is NaN, empty, not a Python literal or not a list;
\* unhashable is TRUE for a set or dict display with a list in it, on which
\* ast.literal_eval raises TypeError, an exception the "except (ValueError,
\* SyntaxError)" clause lets through.  The result is [ok, names, raised],
\* ok = FALSE standing for None and raised = TRUE for the TypeError leaving
\* the function.
parse_sanad_string(sanad) ==
    IF sanad.unhashable THEN [ok |-> FALSE, names |-> <<>>, raised |-> TRUE]
    ELSE IF ~sanad.ok \/ sanad.items = <<>>
    THEN [ok |-> FALSE, names |-> <<>>, raised |-> FALSE]
    ELSE SomeNames(ResolveFrom(CleanItems(sanad.items), 1, <<>>))

\* the keys of BOOK_MAPPINGS
BOOK_MAPPINGS == {"bukhari", "muslim", "abudawud", "tirmidhi", "nasai",
                  "ibnmajah", "malik", "ahmed", "darimi"}

\* chain_tuple = tuple(narrator_ids)
chain_tuple_unordered(narrator_ids) == {narrator_ids[i] : i \in 1..Len(narrator_ids)}

chain_tuple(narrator_ids) == narrator_ids

\* "for narrator_name in sanad": ids for the names of one chain, new names
\* getting the next sequential ids.  Returns [map, next, ids].
RECURSIVE AssignIds(_, _, _, _, _)
AssignIds(names, i, map, next, ids) ==
    IF i > Len(names) THEN [map |-> map, next |-> next, ids |-> ids]
    ELSE IF DictHas(map, names[i])
         THEN AssignIds(names, i + 1, map, next, Append(ids, DictGet(map, names[i])))
         ELSE AssignIds(names, i + 1, DictSet(map, names[i], next), next + 1,
                        Append(ids, next))

\* chain_id = f"c{next_chain_id}"
ChainId(n) == <<"c", n>>

\* "if chain_tuple not in chain_to_id" and the link of the record: t holds
\* the tables of build_normalized_data, a the result of the loop over the
\* names
LinkChain(t, key, a, tuple) ==
    IF ~DictHas(t.chain_to_id, tuple)
    THEN [narrator_to_id |-> a.map,
          next_narrator_id |-> a.next,
          chain_to_id |-> DictSet(t.chain_to_id, tuple, ChainId(t.next_chain_id)),
          chain_id_to_narrator_ids |->
              DictSet(t.chain_id_to_narrator_ids, ChainId(t.next_chain_id), a.ids),
          next_chain_id |-> t.next_chain_id + 1,
          hadith_chain_lookup |->
              DictSet(t.hadith_chain_lookup, key, ChainId(t.next_chain_id))]
    ELSE [t EXCEPT !.narrator_to_id = a.map,
                   !.next_narrator_id = a.next,
                   !.hadith_chain_lookup = DictSet(@, key, DictGet(t.chain_to_id, tuple))]

LinkIds(t, key, a) == LinkChain(t, key, a, chain_tuple(a.ids))

\* hadith_num = int(float(row["Num_hadith"])): float() raises ValueError on a
\* field that is not a number and TypeError on None, int() raises ValueError
\* on nan, and the row is skipped; on an infinite value ("inf", "1e999")
\* int() raises OverflowError, which "except (ValueError, TypeError)" lets
\* through.  A row's num is the integer, -1 for a skipped field and -2 for
\* an infinite one.
NumSkipped(num) == num = -1
NumOverflows(num) == num = -2

\* an exception that leaves build_normalized_data
Raised(e) == [raised |-> e]
IsRaised(r) == "raised" \in DOMAIN r

\* the body of the loop without the test "hadith_num in hadith_chain_lookup":
\* a later row of the same record links the record again
BuildParsedRelink(t, row, key, sanad) ==
    IF row.book \notin BOOK_MAPPINGS THEN t
    ELSE IF NumOverflows(row.num) THEN Raised("OverflowError")
    ELSE IF NumSkipped(row.num) THEN t
    ELSE IF sanad.raised THEN Raised("TypeError")
    ELSE IF ~sanad.ok
    THEN t
    ELSE LinkIds(t, key, AssignIds(sanad.names, 1, t.narrator_to_id,
                                   t.next_narrator_id, <<>>))

\* the body of the loop over the rows, sanad being what parse_sanad_string
\* does on the row's field: the four "continue" tests in the order of the
\* code, with the two exceptions that leave the loop, then the ids and the
\* chain
BuildParsed(t, row, key, sanad) ==
    IF row.book \notin BOOK_MAPPINGS THEN t
    ELSE IF NumOverflows(row.num) THEN Raised("OverflowError")
    ELSE IF NumSkipped(row.num) THEN t
    ELSE IF sanad.raised THEN Raised("TypeError")
    ELSE IF ~sanad.ok \/ DictHas(t.hadith_chain_lookup, key)
    THEN t
    ELSE LinkIds(t, key, AssignIds(sanad.names, 1, t.narrator_to_id,
                                   t.next_narrator_id, <<>>))

\* one iteration of the loop over df_filtered.iterrows()
build_row(t, row) == BuildParsed(t, row, <<row.book, row.num>>, parse_sanad_string(row.sanad))

\* save_normalized_files: narrators.json, the names indexed by id
narrators_list(map) ==
    [i \in 1..Len(map) |-> LET k == CHOOSE k \in 1..Len(map) : map[k][2] = i - 1
                           IN  map[k][1]]

(***************************************************************************)
(* Kinship Resolver (resolve_kinship)                                      *)
(***************************************************************************)
\* KINSHIP_TERMS, in the order of the dictionary
KINSHIP_TERMS ==
    << << <<">","b","y","h">>, "father" >>,
       << <<">","a","b","i","y","h","i">>, "father" >>,
       << <<"j","d","h">>, "grandfather" >>,
       << <<"j","a","d","i","~","h","i">>, "grandfather" >>,
       << <<"E","m","h">>, "uncle" >>,
       << <<"E","a","m","i","~","h","i">>, "uncle" >>,
       << <<">","x","y","h">>, "brother" >>,
       << <<">","a","x","i","y","h","i">>, "brother" >> >>

\* the kind of the first term of KINSHIP_TERMS whose normalized form is
\* normalized, "None" when there is none
KindOfNormalized(normalized) ==
    IF \E k \in 1..Len(KINSHIP_TERMS) : normalize(KINSHIP_TERMS[k][1]) = normalized
    THEN KINSHIP_TERMS[CHOOSE k \in 1..Len(KINSHIP_TERMS) :
                          /\ normalize(KINSHIP_TERMS[k][1]) = normalized
                          /\ \A j \in 1..(k - 1) :
                                 normalize(KINSHIP_TERMS[j][1]) /= normalized][2]
    ELSE "None"

\* resolve_kinship.is_kinship_term
kinship_type_of(name) == KindOfNormalized(normalize(name))

\* length of the run of non-whitespace characters s starts with
RECURSIVE WordLen(_)
WordLen(s) == IF s = <<>> \/ s[1] \in WhiteSpace THEN 0 ELSE 1 + WordLen(Tail(s))

\* \S+(?:\s+\S+)? ... with n - 1 optional groups, matched at the start of s
RECURSIVE TakeWords(_, _)
TakeWords(s, n) ==
    LET w == WordLen(s)
        rest == Drop(s, w)
        after == LStrip(rest)
    IN  IF n = 1 \/ after = <<>> THEN SubSeq(s, 1, w)
        ELSE SubSeq(s, 1, w + (Len(rest) - Len(after))) \o TakeWords(after, n - 1)

\* \s+(\S+(?:\s+\S+)?(?:\s+\S+)?) matched against rest, after being rest
\* without its leading whitespace
PatronymicWords(rest, after) ==
    IF Len(rest) = Len(after) \/ after = <<>> THEN <<>> ELSE TakeWords(after, 3)

PatronymicGroup(rest) == PatronymicWords(rest, LStrip(rest))

\* (?:bn|Abn)\s+(\S+(?:\s+\S+)?(?:\s+\S+)?) matched at 0-based offset i: the
\* text of the group, <<>> when there is no match
PatronymicAt(s, i) ==
    IF OccursAt(s, <<"b","n">>, i) THEN PatronymicGroup(Drop(s, i + 2))
    ELSE IF OccursAt(s, <<"A","b","n">>, i) THEN PatronymicGroup(Drop(s, i + 3))
    ELSE <<>>

\* re.search of the pattern: the leftmost match
PatronymicSearch(normalized) ==
    FirstNonEmpty([i \in 1..Len(normalized) |-> PatronymicAt(normalized, i - 1)])

compound_prefixes ==
    { <<"A","b","y">>, <<"A","b","w">>, <<"A","b","A">>, <<"A","m">>,
      <<"E","b","d">>, <<"E","b","y","d">>, <<"A","l">> }

\* a compound father name is kept whole, any other is cut to its first word
FatherOfWords(father_part, first_word) ==
    IF first_word \in compound_prefixes \/ StartsWith(first_word, <<"A","l">>)
    THEN father_part
    ELSE first_word

FatherOfPart(father_part) ==
    IF father_part = <<>> THEN <<>>
    ELSE FatherOfWords(father_part, Split(father_part)[1])

\* extract_father_name_from_patronymic; <<>> stands for None
extract_father_name_from_patronymic(name) ==
    FatherOfPart(Strip(PatronymicSearch(normalize(name))))

\* the key under which Strategy 2 finds the previous narrator
EnrichedKey(prev_narrator, normalized_prev, narrator_to_father) ==
    IF DictHas(narrator_to_father, prev_narrator) THEN prev_narrator
    ELSE normalized_prev

\* Strategy 2 of resolve_kinship_in_chains: the narrator_to_father map
FatherFromEnriched(prev_narrator, normalized_prev, narrator_to_father) ==
    IF \/ DictHas(narrator_to_father, prev_narrator)
       \/ DictHas(narrator_to_father, normalized_prev)
    THEN DictGet(narrator_to_father,
                 EnrichedKey(prev_narrator, normalized_prev, narrator_to_father))
    ELSE <<>>

\* Strategy 3: the known fathers map
FatherFromKnown(normalized_prev, known_fathers) ==
    IF DictHas(known_fathers, normalized_prev)
    THEN DictGet(known_fathers, normalized_prev)
    ELSE <<>>

\* the three strategies in order, each tried while resolved_name is falsy
FirstTruthy(father, enriched, known) ==
    IF father /= <<>> THEN father
    ELSE IF enriched /= <<>> THEN enriched
    ELSE known

FatherFor(prev_narrator, normalized_prev, known_fathers, narrator_to_father) ==
    FirstTruthy(extract_father_name_from_patronymic(prev_narrator),
                FatherFromEnriched(prev_narrator, normalized_prev, narrator_to_father),
                FatherFromKnown(normalized_prev, known_fathers))

\* the resolved_name of one occurrence with pos > 0; <<>> stands for None
\* and for the empty string, which the code treats alike
resolved_name_for(kinship_type, prev_narrator, known_fathers, narrator_to_father) ==
    IF kinship_type /= "father" THEN <<>>
    ELSE FatherFor(prev_narrator, normalize(prev_narrator), known_fathers,
                   narrator_to_father)

\* prev_idx = indices[pos - 1], pos counted from 0 into the 1-based sequence
prev_idx_first(indices, pos) == indices[1]

prev_idx_of(indices, pos) == indices[pos]

\* len(resolutions[idx]['contexts']) < 10
MaxContexts == 10

\* resolutions is a defaultdict: a missing entry is created empty
ResolutionEntry(resolutions, idx) ==
    IF DictHas(resolutions, idx) THEN DictGet(resolutions, idx)
    ELSE [original |-> <<>>, type |-> "", resolved_in_chains |-> <<>>, contexts |-> <<>>]

\* by_type is a defaultdict(int)
CountUp(by_type, kind) ==
    DictSet(by_type, kind, IF DictHas(by_type, kind) THEN DictGet(by_type, kind) + 1 ELSE 1)

\* a kinship term is met: the counters, and the entry of the narrator.
\* r holds resolutions, stats and the resolved_name of every occurrence.
KinshipMet(r, idx, narrator, kinship_type) ==
    [r EXCEPT !.stats = [@ EXCEPT !.total_kinship_refs = @ + 1,
                                  !.by_type = CountUp(@, kinship_type)],
              !.resolutions =
                  DictSet(r.resolutions, idx,
                          [ResolutionEntry(r.resolutions, idx)
                              EXCEPT !.original = narrator, !.type = kinship_type])]

\* contexts.append(...) while there are fewer than 10
WithContext(entry, context) ==
    IF Len(entry.contexts) < MaxContexts
    THEN [entry EXCEPT !.contexts = Append(@, context)]
    ELSE entry

\* the entry of the narrator after an occurrence with pos > 0
EntryAfter(entry, chain_id, prev_narrator, resolved_name) ==
    WithContext(IF resolved_name /= <<>>
                THEN [entry EXCEPT !.resolved_in_chains = DictSet(@, chain_id, resolved_name)]
                ELSE entry,
                [chain |-> chain_id, prev_narrator |-> prev_narrator,
                 resolved_to |-> resolved_name])

\* "if resolved_name: ... else: ..." for an occurrence at pos > 0 of the
\* chain at place c
KinshipResolved(r, c, chain_id, pos, idx, prev_narrator, resolved_name) ==
    [r EXCEPT !.stats = IF resolved_name /= <<>>
                        THEN [@ EXCEPT !.resolved = @ + 1]
                        ELSE [@ EXCEPT !.unresolved = @ + 1],
              !.resolutions =
                  DictSet(r.resolutions, idx,
                          EntryAfter(DictGet(r.resolutions, idx), chain_id,
                                     prev_narrator, resolved_name)),
              !.resolved_names =
                  Append(@, [c |-> c, pos |-> pos, name |-> resolved_name])]

KinshipAfter(r, c, chain_id, pos, idx, kinship_type, prev_narrator, maps) ==
    KinshipResolved(r, c, chain_id, pos, idx, prev_narrator,
                    resolved_name_for(kinship_type, prev_narrator,
                                      maps.known_fathers, maps.narrator_to_father))

\* the body of "for pos, idx in enumerate(indices)" for one narrator
KinshipVisit(r, c, chain_id, indices, pos, idx, narrator, kinship_type, narrators, maps) ==
    IF kinship_type = "None" THEN r
    ELSE IF pos = 0 THEN KinshipMet(r, idx, narrator, kinship_type)
    ELSE KinshipAfter(KinshipMet(r, idx, narrator, kinship_type), c, chain_id, pos, idx,
                      kinship_type, narrators[prev_idx_of(indices, pos) + 1], maps)

KinshipNarrator(r, c, chain_id, indices, pos, idx, narrator, narrators, maps) ==
    KinshipVisit(r, c, chain_id, indices, pos, idx, narrator,
                 kinship_type_of(narrator), narrators, maps)

KinshipIndex(r, c, chain_id, indices, pos, idx, narrators, maps) ==
    KinshipNarrator(r, c, chain_id, indices, pos, idx, narrators[idx + 1], narrators, maps)

\* one iteration for position pos (from 0) of the chain at place c of
\* chains.items()
kinship_step(r, c, chains, pos, narrators, maps) ==
    KinshipIndex(r, c, chains[c][1], chains[c][2], pos, chains[c][2][pos + 1],
                 narrators, maps)

(***************************************************************************)
(* Reconciler (validate_chains)                                            *)
(***************************************************************************)
\* common_words of names_match
common_words ==
    { <<"b","n">>, <<"A","b","n">>, <<"A","b","y">>, <<"A","m">>,
      <<"E","b","d">>, <<"b","n","t">> }

SignificantOverlapTwo(json_significant, csv_significant) ==
    /\ json_significant /= {} /\ csv_significant /= {}
    /\ Cardinality(json_significant \cap csv_significant) >= 2

\* "if json_significant and csv_significant" and len(overlap) >= 1
SignificantOverlap(json_significant, csv_significant) ==
    /\ json_significant /= {} /\ csv_significant /= {}
    /\ Cardinality(json_significant \cap csv_significant) >= 1

\* names_match
names_match(json_name, csv_name) ==
    IF json_name = csv_name THEN TRUE
    ELSE IF Contains(csv_name, json_name) \/ Contains(json_name, csv_name) THEN TRUE
    ELSE SignificantOverlap(WordSet(json_name) \ common_words,
                            WordSet(csv_name) \ common_words)

\* the loop of chains_match over zip(json_names, csv_names), from pair i on:
\* the 0-based positions whose names do not match
RECURSIVE MismatchedFrom(_, _, _, _)
MismatchedFrom(json_names, csv_names, i, mismatched_positions) ==
    IF i > Min(Len(json_names), Len(csv_names)) THEN mismatched_positions
    ELSE MismatchedFrom(json_names, csv_names, i + 1,
                        IF names_match(json_names[i], csv_names[i])
                        THEN mismatched_positions
                        ELSE Append(mismatched_positions, i - 1))

\* the result with only the first mismatched position reported
PositionsResultFirst(mismatched_positions, compared) ==
    IF mismatched_positions /= <<>>
    THEN [is_match |-> FALSE,
          reason |-> <<"name_diff", "positions", <<mismatched_positions[1]>> >>,
          compared |-> compared]
    ELSE [is_match |-> TRUE, reason |-> <<"matched">>, compared |-> compared]

\* the result of chains_match once the loop has run over compared pairs
PositionsResult(mismatched_positions, compared) ==
    IF mismatched_positions /= <<>>
    THEN [is_match |-> FALSE,
          reason |-> <<"name_diff", "positions", mismatched_positions>>,
          compared |-> compared]
    ELSE [is_match |-> TRUE, reason |-> <<"matched">>, compared |-> compared]

\* f"count_diff:{len(json_names)}vs{len(csv_names)}"
CountDiff(json_names, csv_names) ==
    [is_match |-> FALSE,
     reason |-> <<"count_diff", Len(json_names), "vs", Len(csv_names)>>,
     compared |-> 0]

chains_match_names_first(json_names, csv_names) ==
    IF MismatchedFrom(json_names, csv_names, 1, <<>>) /= <<>>
       \/ Len(json_names) = Len(csv_names)
    THEN PositionsResult(MismatchedFrom(json_names, csv_names, 1, <<>>),
                         Min(Len(json_names), Len(csv_names)))
    ELSE CountDiff(json_names, csv_names)

\* chains_match: (is_match, reason), and the number of calls of names_match
chains_match(json_names, csv_names) ==
    IF Len(json_names) /= Len(csv_names) THEN CountDiff(json_names, csv_names)
    ELSE PositionsResult(MismatchedFrom(json_names, csv_names, 1, <<>>),
                         Len(json_names))

(***************************************************************************)
(* Python floats: IEEE 754 doubles, rounded to nearest, ties to even       *)
(***************************************************************************)
\* A natural number of any size is the sequence of its digits in base
\* LimbBase, the least significant first and the last one not 0; <<>> is 0.
LimbBase == 2^13

RECURSIVE BitsOf(_)
BitsOf(k) == IF k = 0 THEN 0 ELSE 1 + BitsOf(k \div 2)

\* the bits of a digit
LimbBits == BitsOf(LimbBase) - 1

RECURSIVE BigTrim(_)
BigTrim(n) ==
    IF n /= <<>> /\ n[Len(n)] = 0 THEN BigTrim(SubSeq(n, 1, Len(n) - 1)) ELSE n

RECURSIVE BigOf(_)
BigOf(k) == IF k = 0 THEN <<>> ELSE <<k % LimbBase>> \o BigOf(k \div LimbBase)

\* the number a sequence of at most two digits stands for
BigToInt(n) ==
    IF n = <<>> THEN 0 ELSE IF Len(n) = 1 THEN n[1] ELSE n[1] + LimbBase * n[2]

BigDigit(n, i) == IF i >= 1 /\ i <= Len(n) THEN n[i] ELSE 0

\* the number whose digit i is c[i] before the carries are passed on, for
\* entries c[i] below 2^30
RECURSIVE BigCarryFrom(_, _, _)
BigCarryFrom(c, i, carry) ==
    IF i > Len(c) THEN BigOf(carry)
    ELSE <<(c[i] + carry) % LimbBase>>
         \o BigCarryFrom(c, i + 1, (c[i] + carry) \div LimbBase)

BigCarry(c) == BigTrim(BigCarryFrom(c, 1, 0))

BigAdd(a, b) ==
    BigCarry([i \in 1..Max(Len(a), Len(b)) |-> BigDigit(a, i) + BigDigit(b, i)])

\* a * k for a factor k below 2^17
BigTimes(a, k) == BigCarry([i \in 1..Len(a) |-> a[i] * k])

\* n * LimbBase^k
BigShiftDigits(n, k) == IF n = <<>> THEN <<>> ELSE [i \in 1..k |-> 0] \o n

\* a * b for two numbers of five digits: the sums of the columns of the long
\* multiplication, then the carries
MantMul(a, b) ==
    BigCarry(<<a[1] * b[1],
               a[1] * b[2] + a[2] * b[1],
               a[1] * b[3] + a[2] * b[2] + a[3] * b[1],
               a[1] * b[4] + a[2] * b[3] + a[3] * b[2] + a[4] * b[1],
               a[1] * b[5] + a[2] * b[4] + a[3] * b[3] + a[4] * b[2] + a[5] * b[1],
               a[2] * b[5] + a[3] * b[4] + a[4] * b[3] + a[5] * b[2],
               a[3] * b[5] + a[4] * b[4] + a[5] * b[3],
               a[4] * b[5] + a[5] * b[4],
               a[5] * b[5]>>)

\* floor(n / b) and n mod b for a divisor 0 < b < 2^18, from digit i down
RECURSIVE BigDivFrom(_, _, _, _)
BigDivFrom(n, b, i, r) ==
    IF i = 0 THEN [quot |-> <<>>, rem |-> r]
    ELSE LET t == r * LimbBase + n[i]
             rest == BigDivFrom(n, b, i - 1, t % b)
         IN  [quot |-> Append(rest.quot, t \div b), rem |-> rest.rem]

BigDiv(n, b) ==
    LET d == BigDivFrom(n, b, Len(n), 0) IN [quot |-> BigTrim(d.quot), rem |-> d.rem]

BigLess(a, b) ==
    \/ Len(a) < Len(b)
    \/ /\ Len(a) = Len(b)
       /\ \E i \in 1..Len(a) : /\ a[i] < b[i]
                               /\ \A j \in (i + 1)..Len(a) : a[j] = b[j]

BitLength(n) == IF n = <<>> THEN 0 ELSE LimbBits * (Len(n) - 1) + BitsOf(n[Len(n)])

\* bit i of n, bit 0 the least significant
BigBit(n, i) == (BigDigit(n, i \div LimbBits + 1) \div 2^(i % LimbBits)) % 2

\* n * 2^s
BigShiftLeft(n, s) == BigShiftDigits(BigTimes(n, 2^(s % LimbBits)), s \div LimbBits)

\* floor(n / 2^s)
BigShiftRight(n, s) ==
    LET drop == s \div LimbBits
        r == s % LimbBits
    IN  IF drop >= Len(n) THEN <<>>
        ELSE BigTrim([i \in 1..(Len(n) - drop) |->
                        (n[i + drop] \div 2^r)
                        + (BigDigit(n, i + drop + 1) % 2^r) * 2^(LimbBits - r)])

\* n mod 2^s = 0
BigLowZero(n, s) ==
    /\ \A i \in 1..Min(s \div LimbBits, Len(n)) : n[i] = 0
    /\ BigDigit(n, s \div LimbBits + 1) % 2^(s % LimbBits) = 0

\* n / 2^s rounded to the nearest integer, a tie to the even one
BigRoundShift(n, s) ==
    IF s = 0 THEN n
    ELSE IF /\ BigBit(n, s - 1) = 1
            /\ ~BigLowZero(n, s - 1) \/ BigBit(n, s) = 1
         THEN BigAdd(BigShiftRight(n, s), <<1>>)
         ELSE BigShiftRight(n, s)

\* A float x >= 0 is [mant, exp] with x = mant * 2^exp and a mant of exactly
\* MantBits bits; 0.0 has the mant <<>>.  (The floats of the matcher lie
\* between 2^-1000 and 2^1000: no subnormal number, no overflow.)
MantBits == 53

FloatZero == [mant |-> <<>>, exp |-> 0]

\* the float nearest to n * 2^e
FloatRound(n, e) ==
    IF n = <<>> THEN FloatZero
    ELSE LET len == BitLength(n)
             m == BigRoundShift(n, len - MantBits)
         IN  IF len <= MantBits
             THEN [mant |-> BigShiftLeft(n, MantBits - len), exp |-> e - (MantBits - len)]
             ELSE IF BitLength(m) > MantBits
             THEN [mant |-> BigShiftRight(m, 1), exp |-> e + len - MantBits + 1]
             ELSE [mant |-> m, exp |-> e + len - MantBits]

\* a / b for two ints 0 <= a, 0 < b, both below 2^16: also the float a
\* decimal literal such as 0.95 = 19 / 20 stands for.  Six digits of the
\* quotient are worked out, more than MantBits bits, and the digit put below
\* them tells whether the division left a remainder.
FloatDiv(a, b) ==
    LET d == BigDiv(BigShiftDigits(BigOf(a), 6), b)
    IN  IF a = 0 THEN FloatZero
        ELSE FloatRound(<<IF d.rem = 0 THEN 0 ELSE 1>> \o d.quot, -(LimbBits * 7))

\* x * y
FloatMul(x, y) ==
    IF x = FloatZero \/ y = FloatZero THEN FloatZero
    ELSE FloatRound(MantMul(x.mant, y.mant), x.exp + y.exp)

\* x + y
FloatAdd(x, y) ==
    IF x = FloatZero THEN y
    ELSE IF y = FloatZero THEN x
    ELSE LET e == Min(x.exp, y.exp)
         IN  FloatRound(BigAdd(BigShiftLeft(x.mant, x.exp - e),
                               BigShiftLeft(y.mant, y.exp - e)), e)

\* x > y and x >= y
FloatGt(x, y) ==
    /\ x /= FloatZero
    /\ \/ y = FloatZero
       \/ x.exp > y.exp
       \/ x.exp = y.exp /\ BigLess(y.mant, x.mant)

FloatGeq(x, y) == ~FloatGt(y, x)

FloatOne == FloatDiv(1, 1)

\* the literals 0.95, 0.9, 0.4 and 0.6
Float_0_95 == FloatDiv(19, 20)

Float_0_9 == FloatDiv(9, 10)

Float_0_4 == FloatDiv(2, 5)

Float_0_6 == FloatDiv(3, 5)

(***************************************************************************)
(* Matcher (enrich_narrators): a score is a float, a threshold the decimal *)
(* literal <<num, den>> of the call                                        *)
(***************************************************************************)
\* score >= threshold and score > best_score
ScoreGeq(score, threshold) == FloatGeq(score, FloatDiv(threshold[1], threshold[2]))

ScoreGt(score, best_score) == FloatGt(score, best_score)

\* set(n.replace(' ', ''))
CharSet(s) == {s[i] : i \in 1..Len(s)} \ {" "}

\* jaccard * 0.4 + word_jaccard * 0.6 from the four cardinalities, the
\* word_jaccard the int 0 when word_union is 0
JaccardMix(intersection, union, word_intersection, word_union) ==
    FloatAdd(FloatMul(FloatDiv(intersection, union), Float_0_4),
             IF word_union > 0
             THEN FloatMul(FloatDiv(word_intersection, word_union), Float_0_6)
             ELSE FloatZero)

JaccardOf(set1, set2, words1, words2) ==
    IF set1 = {} \/ set2 = {} THEN FloatZero
    ELSE JaccardMix(Cardinality(set1 \cap set2), Cardinality(set1 \cup set2),
                    Cardinality(words1 \cap words2), Cardinality(words1 \cup words2))

\* calculate_similarity after the two normalizations
SimilarityOf(n1, n2) ==
    IF n1 = <<>> \/ n2 = <<>> THEN FloatZero
    ELSE IF n1 = n2 THEN FloatOne
    ELSE IF Contains(n2, n1) \/ Contains(n1, n2)
         THEN FloatMul(FloatDiv(Min(Len(n1), Len(n2)), Max(Len(n1), Len(n2))),
                       Float_0_9)
         ELSE JaccardOf(CharSet(n1), CharSet(n2), WordSet(n1), WordSet(n2))

\* enrich_narrators.calculate_similarity
calculate_similarity(s1, s2) ==
    IF s1 = <<>> \/ s2 = <<>> THEN FloatZero
    ELSE SimilarityOf(normalize_arabic_enrich(s1), normalize_arabic_enrich(s2))

\* ' '.join(parts[a:b]) with 0-based a, b
JoinParts(parts, a, b) == Join(SubSeq(parts, a + 1, Min(b, Len(parts))))

\* the first 'bn' that has a successor: its 1-based position, 0 when none
FirstIbn(parts) ==
    IF \E i \in 1..(Len(parts) - 1) : parts[i] = <<"b", "n">>
    THEN CHOOSE i \in 1..(Len(parts) - 1) :
            /\ parts[i] = <<"b", "n">>
            /\ \A j \in 1..(i - 1) : parts[j] /= <<"b", "n">>
    ELSE 0

\* the partial keys of one rawi in the order build_rawi_index tries them;
\* <<>> stands for a key the row does not have
PartialKeys(parts, ibn) ==
    << IF Len(parts) >= 1 /\ Len(parts[1]) >= 3 THEN parts[1] ELSE <<>>,
       IF Len(parts) >= 2 THEN JoinParts(parts, 0, 2) ELSE <<>>,
       IF Len(parts) >= 3 THEN JoinParts(parts, 0, 3) ELSE <<>>,
       IF Len(parts) >= 1 /\ parts[1] \in {<<"A", "b", "w">>, <<"A", "m">>}
       THEN JoinParts(parts, 0, 2) ELSE <<>>,
       IF ibn > 0 THEN JoinParts(parts, ibn - 1, ibn + 1) ELSE <<>>,
       IF ibn > 0 /\ Len(parts[ibn + 1]) >= 3 THEN parts[ibn + 1] ELSE <<>>,
       IF Len(parts) >= 2 /\ parts[1] \in {<<"A", "b", "n">>, <<"b", "n">>}
       THEN JoinParts(parts, 1, Len(parts)) ELSE <<>>,
       IF /\ Len(parts) >= 3
          /\ EndsWith(parts[Len(parts)], <<"y">>)
          /\ Len(parts[Len(parts)]) > 3
       THEN JoinParts(parts, 0, Len(parts) - 1) ELSE <<>> >>

\* if key not in index: index[key] = rawi_data, for each key in turn
RECURSIVE SetIfAbsent(_, _, _)
SetIfAbsent(index, keys, rawi_data) ==
    IF keys = <<>> THEN index
    ELSE IF Head(keys) = <<>> \/ DictHas(index, Head(keys))
         THEN SetIfAbsent(index, Tail(keys), rawi_data)
         ELSE SetIfAbsent(Append(index, <<Head(keys), rawi_data>>), Tail(keys), rawi_data)

IndexRawi(index, normalized, parts, rawi_data) ==
    SetIfAbsent(DictSet(index, normalized, rawi_data),
                PartialKeys(parts, FirstIbn(parts)), rawi_data)

IndexNormalized(index, normalized, rawi_data) ==
    IF normalized = <<>> THEN index
    ELSE IndexRawi(index, normalized, Split(normalized), rawi_data)

\* "if not arabic_name: continue" and the rest of the loop body of
\* build_rawi_index
IndexName(index, arabic_name, scholar_indx) ==
    IF arabic_name = <<>> THEN index
    ELSE IndexNormalized(index, normalize_arabic_enrich(arabic_name),
                         [scholar_indx |-> scholar_indx, nameAr |-> arabic_name])

\* one row of build_rawi_index: part is the Arabic part of the row's name
\* field (parts[1] of its split on ' ( '), scholar_indx the row's number
IndexRow(index, part, scholar_indx) ==
    IndexName(index, extract_arabic_from_name(part), scholar_indx)

RECURSIVE RawiIndexFrom(_, _, _)
RawiIndexFrom(names, i, index) ==
    IF i > Len(names) THEN index
    ELSE RawiIndexFrom(names, i + 1, IndexRow(index, names[i], i))

\* enrich_narrators.build_rawi_index over the Arabic names of the table
build_rawi_index(names) == RawiIndexFrom(names, 1, <<>>)

\* shorter / longer * 0.95
ContainmentScore(normalized, indexed_name) ==
    FloatMul(FloatDiv(Min(Len(normalized), Len(indexed_name)),
                      Max(Len(normalized), Len(indexed_name))),
             Float_0_95)

\* the test without its threshold comparison
ContainmentHitAny(normalized, indexed_name, threshold) ==
    Contains(indexed_name, normalized) \/ Contains(normalized, indexed_name)

\* the test of the partial-match loop for one indexed name
ContainmentHit(normalized, indexed_name, threshold) ==
    /\ Contains(indexed_name, normalized) \/ Contains(normalized, indexed_name)
    /\ ScoreGeq(ContainmentScore(normalized, indexed_name), threshold)

\* the partial-match loop from the key at position i on: <<[match, score]>>
\* for the first indexed name that passes, <<>> when none does
RECURSIVE PartialFrom(_, _, _, _, _)
PartialFrom(normalized, rawi_index, normalized_keys, threshold, i) ==
    IF i > Len(normalized_keys) THEN <<>>
    ELSE IF ContainmentHit(normalized, normalized_keys[i], threshold)
    THEN <<[match |-> <<DictGet(rawi_index, normalized_keys[i])>>,
            score |-> ContainmentScore(normalized, normalized_keys[i])]>>
    ELSE PartialFrom(normalized, rawi_index, normalized_keys, threshold, i + 1)

PartialMatch(normalized, rawi_index, normalized_keys, threshold) ==
    PartialFrom(normalized, rawi_index, normalized_keys, threshold, 1)

\* the fuzzy loop: best is [match, score], replaced on a strictly greater score
FuzzyBetter(best, rawi, score) ==
    IF ScoreGt(score, best.score) THEN [match |-> <<rawi>>, score |-> score] ELSE best

RECURSIVE FuzzyFrom(_, _, _, _, _)
FuzzyFrom(normalized, rawi_index, normalized_keys, i, best) ==
    IF i > Len(normalized_keys) THEN best
    ELSE FuzzyFrom(normalized, rawi_index, normalized_keys, i + 1,
                   FuzzyBetter(best, DictGet(rawi_index, normalized_keys[i]),
                               calculate_similarity(normalized, normalized_keys[i])))

NoMatch == [match |-> <<>>, score |-> FloatZero]

FuzzyResult(best, threshold) == IF ScoreGeq(best.score, threshold) THEN best ELSE NoMatch

\* after the exact test: partial is the outcome of the partial-match loop
AfterPartial(partial, normalized, rawi_index, normalized_keys, threshold, use_fuzzy) ==
    IF partial /= <<>> THEN partial[1]
    ELSE IF ~use_fuzzy THEN NoMatch
    ELSE FuzzyResult(FuzzyFrom(normalized, rawi_index, normalized_keys, 1, NoMatch),
                     threshold)

BestMatchOf(normalized, rawi_index, normalized_keys, threshold, use_fuzzy) ==
    IF normalized = <<>> THEN NoMatch
    ELSE IF DictHas(rawi_index, normalized)
         THEN [match |-> <<DictGet(rawi_index, normalized)>>, score |-> FloatOne]
         ELSE AfterPartial(PartialMatch(normalized, rawi_index, normalized_keys, threshold),
                           normalized, rawi_index, normalized_keys, threshold, use_fuzzy)

\* enrich_narrators.find_best_match: match is <<>> for None, <<rawi>> otherwise
find_best_match(narrator_name, rawi_index, normalized_keys, threshold, use_fuzzy) ==
    BestMatchOf(normalize_arabic_enrich(narrator_name), rawi_index, normalized_keys,
                threshold, use_fuzzy)

(***************************************************************************)
(* enrich_narrators: the loop over narrators.json                          *)
(***************************************************************************)
NON_NAME_TERMS ==
    { <<"A", "b", "y", "h">>, <<"A", "b", "y", "h", "A">>, <<"A", "b", "A", "h">>, <<"A", "b", "w", "h">>,
      <<"A", "b", "y", "k">>, <<"A", "b", "A", "k">>, <<"A", "b", "w", "k">>,
      <<"A", "b", "y">>, <<"A", "b", "A">>, <<"A", "b", "w">>,
      <<"j", "d", "h">>, <<"j", "d", "t", "h">>, <<"j", "d", "h", "A">>, <<"j", "d", "k">>,
      <<"E", "m", "h">>, <<"E", "m", "t", "h">>, <<"x", "A", "l", "h">>, <<"x", "A", "l", "t", "h">>,
      <<"E", "m", "k">>, <<"x", "A", "l", "k">>,
      <<"A", "m", "h">>, <<"A", "m", "h", "A">>, <<"A", "m", "k">>,
      <<"A", "x", "y", "h">>, <<"A", "x", "t", "h">>, <<"A", "x", "w", "h">>,
      <<"A", "x", "y", "k">>, <<"A", "x", "t", "k">>,
      <<"A", "b", "n", "h">>, <<"A", "b", "n", "t", "h">>, <<"A", "b", "n", "h", "A">>,
      <<"A", "b", "n", "k">>, <<"A", "b", "n", "t", "k">>,
      <<"m", "x", "b", "r">>, <<"m", "x", "b", "r", "h">>,
      <<"r", "j", "l">>, <<"A", "m", "r", "A", "h">>, <<"r", "j", "l", "A">>,
      <<"A", "m", " ", "w", "l", "d">>, <<"A", "m", " ", "w", "l", "d", "h">>,
      <<"$", "y", "x">>, <<"$", "y", "x", "h">>, <<"$", "y", "x", "A">>,
      <<"b", "E", "D", " ", "A", "S", "H", "A", "b", "h">>,
      <<"r", "j", "l", " ", "m", "n", " ", "A", "S", "H", "A", "b", "h">>,
      <<"f", "l", "A", "n">>, <<"f", "l", "A", "n", "h">> }

ValidNormalized(normalized) == normalized \notin NON_NAME_TERMS /\ Len(normalized) > 2

\* is_valid_narrator_name
is_valid_narrator_name(name) == ValidNormalized(normalize_arabic_enrich(name))

\* the manual_entry of load_manual_data: nameAr, and the source tag
ManualEntry(narrator) == [nameAr |-> narrator.nameAr, source |-> "manual"]

\* "if normalized_ar and normalized_ar not in manual_index"
ManualAlso(manual_index, normalized_ar, manual_entry) ==
    IF normalized_ar /= <<>> /\ ~DictHas(manual_index, normalized_ar)
    THEN DictSet(manual_index, normalized_ar, manual_entry)
    ELSE manual_index

\* one narrator of unmatched_narrators_manual.json: [nameOriginal, nameAr,
\* same_as], same_as telling whether its notes hold 'Same as entry'
ManualAdd(manual_index, narrator) ==
    IF narrator.nameOriginal = <<>> \/ narrator.same_as THEN manual_index
    ELSE ManualAlso(DictSet(manual_index, normalize_arabic_enrich(narrator.nameOriginal),
                            ManualEntry(narrator)),
                    normalize_arabic_enrich(narrator.nameAr), ManualEntry(narrator))

RECURSIVE ManualFrom(_, _, _)
ManualFrom(narrators, i, manual_index) ==
    IF i > Len(narrators) THEN manual_index
    ELSE ManualFrom(narrators, i + 1, ManualAdd(manual_index, narrators[i]))

\* load_manual_data
load_manual_data(narrators) == ManualFrom(narrators, 1, <<>>)

\* load_kinship_data: the entries of kinship_narrators_enriched.json by id
RECURSIVE load_kinship_data(_)
load_kinship_data(data) ==
    IF data = <<>> THEN <<>>
    ELSE DictSet(load_kinship_data(SubSeq(data, 1, Len(data) - 1)),
                 data[Len(data)].id, data[Len(data)])

\* an entry of narrators_enriched.json; the fields an entry does not carry
\* are <<>>, FALSE or "none"
EnrichedEntry(i, narrator_name, source) ==
    [id |-> i, nameOriginal |-> narrator_name, nameAr |-> <<>>, scholar_indx |-> <<>>,
     isKinshipReference |-> FALSE, kinshipType |-> "none", resolvedName |-> <<>>,
     isNonName |-> FALSE, matchScore |-> <<>>, source |-> source]

KinshipEntry(i, narrator_name, kinship_data) ==
    [EnrichedEntry(i, narrator_name, "kinship")
        EXCEPT !.isKinshipReference = TRUE,
               !.kinshipType = kinship_data.kinshipType,
               !.resolvedName = kinship_data.resolvedName]

NonNameEntry(i, narrator_name) ==
    [EnrichedEntry(i, narrator_name, "none")
        EXCEPT !.nameAr = narrator_name, !.isNonName = TRUE]

\* round(score, 3) for a float 0 <= score <= 1: <<k, 1000>> is the float of the
\* decimal k / 1000, the multiple of 1/1000 nearest to the value the float
\* has, the even one of the two when that value lies halfway between them
Round3(score) ==
    <<BigToInt(BigRoundShift(BigTimes(score.mant, 1000), -score.exp)), 1000>>

CsvEntry(i, narrator_name, match, score) ==
    [EnrichedEntry(i, narrator_name, "csv")
        EXCEPT !.nameAr = match.nameAr, !.scholar_indx = <<match.scholar_indx>>,
               !.matchScore = Round3(score)]

ManualMatchEntry(i, narrator_name, manual_match) ==
    [EnrichedEntry(i, narrator_name, "manual")
        EXCEPT !.nameAr = manual_match.nameAr, !.matchScore = <<1000, 1000>>]

BasicEntry(i, narrator_name) ==
    [EnrichedEntry(i, narrator_name, "none") EXCEPT !.nameAr = narrator_name]

\* the locals of enrich_narrators before its loop
NoEnriched ==
    [enriched |-> <<>>, matched_count |-> 0, matched_manual_count |-> 0,
     matched_kinship_count |-> 0, filtered_count |-> 0, unmatched |-> <<>>]

\* the else branch of "if match": manual data as fallback
EnrichFallback(st, i, narrator_name, normalized, manual_index) ==
    IF DictHas(manual_index, normalized)
    THEN [st EXCEPT !.enriched = Append(@, ManualMatchEntry(i, narrator_name,
                                                            DictGet(manual_index, normalized))),
                    !.matched_manual_count = @ + 1]
    ELSE [st EXCEPT !.enriched = Append(@, BasicEntry(i, narrator_name)),
                    !.unmatched = Append(@, narrator_name)]

\* "if match: ... else: ..." on the result of find_best_match
EnrichMatched(st, i, narrator_name, r, manual_index) ==
    IF r.match /= <<>>
    THEN [st EXCEPT !.enriched = Append(@, CsvEntry(i, narrator_name, r.match[1], r.score)),
                    !.matched_count = @ + 1]
    ELSE EnrichFallback(st, i, narrator_name, normalize_arabic_enrich(narrator_name),
                        manual_index)

\* one iteration of "for i, narrator_name in enumerate(narrators)"
enrich_step(st, i, narrator_name, rawi_index, manual_index, kinship_index, threshold) ==
    IF DictHas(kinship_index, i)
    THEN [st EXCEPT !.enriched = Append(@, KinshipEntry(i, narrator_name,
                                                        DictGet(kinship_index, i))),
                    !.matched_kinship_count = @ + 1]
    ELSE IF ~is_valid_narrator_name(narrator_name)
    THEN [st EXCEPT !.enriched = Append(@, NonNameEntry(i, narrator_name)),
                    !.filtered_count = @ + 1]
    ELSE EnrichMatched(st, i, narrator_name,
                       find_best_match(narrator_name, rawi_index, DictKeys(rawi_index),
                                       threshold, FALSE),
                       manual_index)

\* the stats of enrich_narrators, the two rates left as the counts they
\* are the quotient of
enrich_stats(st, total) ==
    [total |-> total, matchedCsv |-> st.matched_count,
     matchedManual |-> st.matched_manual_count,
     matchedKinship |-> st.matched_kinship_count,
     matched |-> st.matched_count + st.matched_manual_count + st.matched_kinship_count,
     filtered |-> st.filtered_count, unmatched |-> Len(st.unmatched)]

(***************************************************************************)
(* Matchers of the correction steps (fix_chains_from_csv,                  *)
(* fix_chains_gemini, fix_skipped_chains).  A narrators list is the        *)
(* sequence of the nameAr fields, <<>> for a missing or empty one; an id    *)
(* result is <<>> for None and <<id>> otherwise.                           *)
(***************************************************************************)
\* common_words of fix_chains_from_csv.build_narrator_index and of
\* fix_chains_gemini.find_narrator_id
INDEX_COMMON_WORDS ==
    { <<"b","n">>, <<"A","b","n">>, <<"A","b","y">>, <<"A","m">>,
      <<"E","b","d">>, <<"b","n","t">>, <<"A","l">> }

\* common_words of fix_chains_from_csv.find_narrator_id
CSV_COMMON_WORDS == INDEX_COMMON_WORDS \cup {<<"A","l","m","&","m","n","y","n">>}

\* exact_ar: normalized nameAr -> position, a later duplicate overwriting
RECURSIVE ExactFrom(_, _, _)
ExactFrom(narrators, i, exact_ar) ==
    IF i > Len(narrators) THEN exact_ar
    ELSE ExactFrom(narrators, i + 1,
                   IF narrators[i] = <<>> THEN exact_ar
                   ELSE DictSet(exact_ar, normalize_arabic_cmp(narrators[i]), i - 1))

\* build_narrator_index of fix_chains_gemini and fix_skipped_chains
build_narrator_index(narrators) == ExactFrom(narrators, 1, <<>>)

\* the words one narrator is indexed by
IndexedWords(name) ==
    {w \in WordSet(normalize_arabic_cmp(name)) \ INDEX_COMMON_WORDS : Len(w) > 2}

\* word_index[word]: the positions of the narrators indexed by word, ascending
WordIds(narrators, word) ==
    SelectSeq([i \in 1..Len(narrators) |-> i - 1],
              LAMBDA id : word \in IndexedWords(narrators[id + 1]))

word_index_of(narrators) ==
    [w \in UNION {IndexedWords(narrators[i]) : i \in 1..Len(narrators)} |->
        WordIds(narrators, w)]

\* fix_chains_from_csv.build_narrator_index
build_narrator_index_csv(narrators) ==
    [exact_ar |-> ExactFrom(narrators, 1, <<>>), word_index |-> word_index_of(narrators)]

\* one iteration of the substring loop on the entry (json_name, idx)
NoScan == [start_match |-> <<>>, start_len |-> 0, any_match |-> <<>>, any_len |-> 0]

ScanStart(m, idx, length) ==
    IF length > m.start_len THEN [m EXCEPT !.start_match = <<idx>>, !.start_len = length]
    ELSE m

ScanAny(m, idx, length) ==
    IF length > m.any_len THEN [m EXCEPT !.any_match = <<idx>>, !.any_len = length]
    ELSE m

\* the loop body with every containment counted as a match at the start
ScanItemAnywhere(m, normalized, json_name, idx) ==
    IF Contains(normalized, json_name) THEN ScanStart(m, idx, Len(json_name))
    ELSE IF Contains(json_name, normalized) THEN ScanStart(m, idx, Len(normalized))
         ELSE m

ScanItem(m, normalized, json_name, idx) ==
    IF Contains(normalized, json_name)
    THEN IF Find(normalized, json_name) = 0
         THEN ScanStart(m, idx, Len(json_name))
         ELSE ScanAny(m, idx, Len(json_name))
    ELSE IF Contains(json_name, normalized)
         THEN IF Find(json_name, normalized) = 0
              THEN ScanStart(m, idx, Len(normalized))
              ELSE ScanAny(m, idx, Len(normalized))
         ELSE m

RECURSIVE ScanFrom(_, _, _, _)
ScanFrom(normalized, exact_ar, i, m) ==
    IF i > Len(exact_ar) THEN m
    ELSE ScanFrom(normalized, exact_ar, i + 1,
                  ScanItem(m, normalized, exact_ar[i][1], exact_ar[i][2]))

\* max(candidates, key=lambda x: candidates[x]): the first key, in insertion
\* order, that holds the greatest value
MaxKey(candidates) ==
    candidates[CHOOSE i \in 1..Len(candidates) :
                  /\ \A j \in 1..Len(candidates) : candidates[j][2] <= candidates[i][2]
                  /\ \A j \in 1..(i - 1) : candidates[j][2] < candidates[i][2]][1]

\* candidates[idx] = candidates.get(idx, 0) + 1 for each idx of ids
RECURSIVE CountIds(_, _)
CountIds(candidates, ids) ==
    IF ids = <<>> THEN candidates
    ELSE CountIds(DictSet(candidates, Head(ids),
                          IF DictHas(candidates, Head(ids))
                          THEN DictGet(candidates, Head(ids)) + 1 ELSE 1),
                  Tail(ids))

\* the candidate loop over csv_words, iterated in the given order
RECURSIVE CandidatesFrom(_, _, _)
CandidatesFrom(order, word_index, candidates) ==
    IF order = <<>> THEN candidates
    ELSE CandidatesFrom(Tail(order), word_index,
                        IF Head(order) \in DOMAIN word_index
                        THEN CountIds(candidates, word_index[Head(order)])
                        ELSE candidates)

\* csv_words of fix_chains_from_csv.find_narrator_id
csv_words_of(normalized) ==
    {w \in WordSet(normalized) \ CSV_COMMON_WORDS : Len(w) > 2}

\* the orders in which Python may iterate the set words
Orders(words) ==
    {order \in [1..Cardinality(words) -> words] :
        \A i, j \in 1..Cardinality(words) : order[i] = order[j] => i = j}

CsvBest(best_idx, best_score, n_words) ==
    IF best_score >= 2 \/ 2 * best_score >= n_words THEN <<best_idx>> ELSE <<>>

CsvBestOf(candidates, best_idx, n_words) ==
    CsvBest(best_idx, DictGet(candidates, best_idx), n_words)

CsvWordMatch(candidates, n_words) ==
    IF candidates = <<>> THEN <<>>
    ELSE CsvBestOf(candidates, MaxKey(candidates), n_words)

CsvAfterScan(m, index, order) ==
    IF m.start_match /= <<>> /\ m.start_len >= 8 THEN m.start_match
    ELSE IF m.any_match /= <<>> /\ m.any_len >= 12 THEN m.any_match
    ELSE CsvWordMatch(CandidatesFrom(order, index.word_index, <<>>), Len(order))

CsvSearch(normalized, index, order) ==
    IF DictHas(index.exact_ar, normalized) THEN <<DictGet(index.exact_ar, normalized)>>
    ELSE CsvAfterScan(ScanFrom(normalized, index.exact_ar, 1, NoScan), index, order)

CsvFound(id, normalized, cache) ==
    [id |-> id,
     cache |-> IF id = <<>> THEN cache ELSE DictSet(cache, normalized, id[1])]

CsvLookup(normalized, index, cache, order) ==
    IF DictHas(cache, normalized)
    THEN [id |-> <<DictGet(cache, normalized)>>, cache |-> cache]
    ELSE CsvFound(CsvSearch(normalized, index, order), normalized, cache)

\* fix_chains_from_csv.find_narrator_id: order is the order in which the set
\* csv_words is iterated; the result carries the cache after the call
find_narrator_id_csv(csv_name, index, cache, order) ==
    CsvLookup(normalize_arabic_cmp(csv_name), index, cache, order)

\* the candidate loop of fix_chains_gemini.find_narrator_id
GeminiOverlap(candidates, name_words, json_words, idx) ==
    IF name_words \cap json_words /= {}
    THEN DictSet(candidates, idx, Cardinality(name_words \cap json_words))
    ELSE candidates

RECURSIVE GeminiCandidates(_, _, _, _)
GeminiCandidates(name_words, index, i, candidates) ==
    IF i > Len(index) THEN candidates
    ELSE GeminiCandidates(name_words, index, i + 1,
                          GeminiOverlap(candidates, name_words,
                                        WordSet(index[i][1]) \ INDEX_COMMON_WORDS,
                                        index[i][2]))

GeminiBestOf(candidates, best_idx) ==
    IF DictGet(candidates, best_idx) >= 2 THEN <<best_idx>> ELSE <<>>

GeminiBest(candidates) ==
    IF candidates = <<>> THEN <<>> ELSE GeminiBestOf(candidates, MaxKey(candidates))

GeminiWordMatch(name_words, index) ==
    IF name_words = {} THEN <<>>
    ELSE GeminiBest(GeminiCandidates(name_words, index, 1, <<>>))

GeminiAfterScan(m, normalized, index) ==
    IF m.start_match /= <<>> /\ m.start_len >= 8 THEN m.start_match
    ELSE GeminiWordMatch({w \in WordSet(normalized) \ INDEX_COMMON_WORDS : Len(w) > 2},
                         index)

GeminiLookup(normalized, index) ==
    IF DictHas(index, normalized) THEN <<DictGet(index, normalized)>>
    ELSE GeminiAfterScan(ScanFrom(normalized, index, 1, NoScan), normalized, index)

\* fix_chains_gemini.find_narrator_id
find_narrator_id_gemini(name_ar, index) ==
    GeminiLookup(normalize_arabic_cmp(name_ar), index)

\* the three alias tests of fix_skipped_chains.find_narrator_id on a name and
\* its normalized form
AliasLookup(name, normalized, aliases) ==
    IF DictHas(aliases, name) THEN <<DictGet(aliases, name)>>
    ELSE IF DictHas(aliases, normalized) THEN <<DictGet(aliases, normalized)>>
    ELSE FirstNonEmpty([i \in 1..Len(aliases) |->
            IF normalize_arabic_cmp(aliases[i][1]) = normalized
            THEN <<aliases[i][2]>> ELSE <<>>])

\* the position of the first ')' after position i, 0 when there is none
NextClose(s, i) ==
    IF \E j \in (i + 1)..Len(s) : s[j] = ")"
    THEN CHOOSE j \in (i + 1)..Len(s) :
            s[j] = ")" /\ \A k \in (i + 1)..(j - 1) : s[k] /= ")"
    ELSE 0

ParenInnerAt(s, i, close) ==
    IF s[i] = "(" /\ close > i + 1 THEN SubSeq(s, i + 1, close - 1) ELSE <<>>

\* re.search(r"\(([^)]+)\)", s).group(1), <<>> when there is no match
ParenInner(s) == FirstNonEmpty([i \in 1..Len(s) |-> ParenInnerAt(s, i, NextClose(s, i))])

\* Strategy 4: the first entry in a containment relation with the query, one of
\* the two being at least 6 long
SubstringFirst(normalized, narrator_index) ==
    FirstNonEmpty([i \in 1..Len(narrator_index) |->
        IF /\ \/ Contains(normalized, narrator_index[i][1])
              \/ Contains(narrator_index[i][1], normalized)
           /\ Len(narrator_index[i][1]) >= 6 \/ Len(normalized) >= 6
        THEN <<narrator_index[i][2]>> ELSE <<>>])

\* Strategies 3 and 4
DirectLookup(normalized, narrator_index) ==
    IF DictHas(narrator_index, normalized) THEN <<DictGet(narrator_index, normalized)>>
    ELSE SubstringFirst(normalized, narrator_index)

\* Strategy 2 on the name in parentheses
InnerFound(alias, inner_normalized, narrator_index) ==
    IF alias /= <<>> THEN alias
    ELSE IF DictHas(narrator_index, inner_normalized)
         THEN <<DictGet(narrator_index, inner_normalized)>>
         ELSE <<>>

InnerLookup(inner_name, inner_normalized, narrator_index, aliases) ==
    InnerFound(AliasLookup(inner_name, inner_normalized, aliases), inner_normalized,
               narrator_index)

SkippedAfterInner(inner, normalized, narrator_index) ==
    IF inner /= <<>> THEN inner ELSE DirectLookup(normalized, narrator_index)

SkippedAfterAlias(alias, inner_name, normalized, narrator_index, aliases) ==
    IF alias /= <<>> THEN alias
    ELSE IF inner_name /= <<>>
         THEN SkippedAfterInner(InnerLookup(inner_name, normalize_arabic_cmp(inner_name),
                                            narrator_index, aliases),
                                normalized, narrator_index)
         ELSE DirectLookup(normalized, narrator_index)

SkippedLookup(clean_name, normalized, narrator_index, aliases) ==
    SkippedAfterAlias(AliasLookup(clean_name, normalized, aliases), ParenInner(clean_name),
                      normalized, narrator_index, aliases)

SkippedClean(clean_name, narrator_index, aliases) ==
    SkippedLookup(clean_name, normalize_arabic_cmp(clean_name), narrator_index, aliases)

\* fix_skipped_chains.find_narrator_id
find_narrator_id_skipped(name_ar, narrator_index, aliases) ==
    SkippedClean(Strip(name_ar), narrator_index, aliases)

\* the alias table fix_skipped_chains.main hands to find_narrator_id: every
\* key of the file, and its normalized form, in file order
RECURSIVE NormalizedAliasesFrom(_, _, _)
NormalizedAliasesFrom(aliases, i, normalized_aliases) ==
    IF i > Len(aliases) THEN normalized_aliases
    ELSE NormalizedAliasesFrom(aliases, i + 1,
            DictSet(DictSet(normalized_aliases, aliases[i][1], aliases[i][2]),
                    normalize_arabic_cmp(aliases[i][1]), aliases[i][2]))

normalized_aliases_of(aliases) == NormalizedAliasesFrom(aliases, 1, <<>>)

(***************************************************************************)
(* Correction steps: the loop bodies of the three main functions.  mem     *)
(* holds the local variables of a run: chains, the queue and the position  *)
(* i in it, processed_ids, skipped_list, cache, unfixable, fixed.          *)
(***************************************************************************)
NoMem ==
    [chains |-> <<>>, queue |-> <<>>, i |-> 0, processed_ids |-> {}, skipped_list |-> <<>>,
     cache |-> <<>>, unfixable |-> <<>>, fixed |-> 0]

\* "for name in names": r holds new_chain, missing and the cache, and found,
\* the id obtained for each name of the sequence in turn (<<>> when none was)
NoMapped(cache) == [new_chain |-> <<>>, missing |-> <<>>, found |-> <<>>, cache |-> cache]

MapAdd(r, name, id, cache) ==
    [new_chain |-> IF id /= <<>> THEN Append(r.new_chain, id[1]) ELSE r.new_chain,
     missing |-> IF id = <<>> THEN Append(r.missing, name) ELSE r.missing,
     found |-> Append(r.found, id),
     cache |-> cache]

CsvMapAdd(r, name, f) == MapAdd(r, name, f.id, f.cache)

RECURSIVE CsvMapFrom(_, _, _, _, _)
CsvMapFrom(names, orders, i, index, r) ==
    IF i > Len(names) THEN r
    ELSE CsvMapFrom(names, orders, i + 1, index,
                    CsvMapAdd(r, names[i],
                              find_narrator_id_csv(names[i], index, r.cache, orders[i])))

RECURSIVE GeminiMapFrom(_, _, _, _)
GeminiMapFrom(names, i, index, r) ==
    IF i > Len(names) THEN r
    ELSE GeminiMapFrom(names, i + 1, index,
                       MapAdd(r, names[i], find_narrator_id_gemini(names[i], index),
                              r.cache))

\* "if not name: continue" leaves both lists as they are
SkippedMapAdd(r, name, narrator_index, aliases) ==
    IF name = <<>> THEN [r EXCEPT !.found = Append(@, <<>>)]
    ELSE MapAdd(r, name, find_narrator_id_skipped(name, narrator_index, aliases), r.cache)

RECURSIVE SkippedMapFrom(_, _, _, _, _)
SkippedMapFrom(names, i, narrator_index, aliases, r) ==
    IF i > Len(names) THEN r
    ELSE SkippedMapFrom(names, i + 1, narrator_index, aliases,
                        SkippedMapAdd(r, names[i], narrator_index, aliases))

\* chains.get(chain_id): <<>> when the key is absent, <<list>> otherwise
EntryOf(chains, chain_id) ==
    IF DictHas(chains, chain_id) THEN <<DictGet(chains, chain_id)>> ELSE <<>>

\* what a step did, for the properties: the corrected sequence, the id
\* obtained for each of its names, whether chains[chain_id] was assigned, and
\* the entry of the chain before the step
StepRecord(prog, chain_id, names, found, assigned, before) ==
    [prog |-> prog, chain_id |-> chain_id, names |-> names, found |-> found,
     assigned |-> assigned, before |-> before]

\* the loop body with the new list written to every chain of the table
CsvApplyEvery(mem, mismatch, r) ==
    [mem |-> IF r.missing /= <<>>
             THEN [mem EXCEPT !.unfixable =
                                 Append(@, [hadith_id |-> mismatch.hadith_id,
                                            chain_id |-> mismatch.chain_id,
                                            csv_chain |-> mismatch.csv_chain,
                                            missing_narrators |-> r.missing,
                                            partial_chain |-> r.new_chain]),
                              !.cache = r.cache, !.i = @ + 1]
             ELSE [mem EXCEPT !.chains =
                                 [k \in 1..Len(DictSet(@, mismatch.chain_id, r.new_chain)) |->
                                     <<DictSet(@, mismatch.chain_id, r.new_chain)[k][1],
                                       r.new_chain>>],
                              !.fixed = @ + 1, !.cache = r.cache, !.i = @ + 1],
     last |-> StepRecord("fix_chains_from_csv", mismatch.chain_id, mismatch.csv_chain,
                         r.found, r.missing = <<>>,
                         EntryOf(mem.chains, mismatch.chain_id))]

\* fix_chains_from_csv.main, the body of the loop after the names are mapped
CsvApply(mem, mismatch, r) ==
    [mem |-> IF r.missing /= <<>>
             THEN [mem EXCEPT !.unfixable =
                                 Append(@, [hadith_id |-> mismatch.hadith_id,
                                            chain_id |-> mismatch.chain_id,
                                            csv_chain |-> mismatch.csv_chain,
                                            missing_narrators |-> r.missing,
                                            partial_chain |-> r.new_chain]),
                              !.cache = r.cache, !.i = @ + 1]
             ELSE [mem EXCEPT !.chains = DictSet(@, mismatch.chain_id, r.new_chain),
                              !.fixed = @ + 1, !.cache = r.cache, !.i = @ + 1],
     last |-> StepRecord("fix_chains_from_csv", mismatch.chain_id, mismatch.csv_chain,
                         r.found, r.missing = <<>>,
                         EntryOf(mem.chains, mismatch.chain_id))]

\* one iteration of the loop of fix_chains_from_csv.main; orders[k] is the
\* order in which the word set of the k-th name is iterated
csv_step(mem, mismatch, index, orders) ==
    CsvApply(mem, mismatch,
             CsvMapFrom(mismatch.csv_chain, orders, 1, index, NoMapped(mem.cache)))

\* an entry of gemini_skipped.json; confidence is <<>> when the entry has
\* none, gemini_chain is the list of the "ar" fields when the entry has one
SkippedEntry(mismatch, reason, confidence) ==
    [hadith_id |-> mismatch.hadith_id, chain_id |-> mismatch.chain_id, reason |-> reason,
     confidence |-> confidence, has_gemini_chain |-> FALSE, gemini_chain |-> <<>>]

\* a path of fix_chains_gemini.main that ends in "continue": checked tells
\* whether the iteration reaches the "save every 50" test
GeminiSkip(mem, mismatch, reason) ==
    [mem |-> [mem EXCEPT !.skipped_list = Append(@, SkippedEntry(mismatch, reason, <<>>)),
                         !.processed_ids = @ \cup {mismatch.chain_id},
                         !.i = @ + 1],
     checked |-> FALSE,
     last |-> StepRecord("fix_chains_gemini", mismatch.chain_id, <<>>, <<>>, FALSE,
                         EntryOf(mem.chains, mismatch.chain_id))]

\* missing[:3]
FirstThree(missing) == SubSeq(missing, 1, Min(3, Len(missing)))

\* lines 285-296 of fix_chains_gemini.main
GeminiApply(mem, mismatch, reply, r) ==
    [mem |-> IF r.missing /= <<>>
             THEN [mem EXCEPT !.skipped_list =
                                 Append(@, SkippedEntry(mismatch,
                                                        <<"Missing", FirstThree(r.missing)>>,
                                                        <<reply.confidence>>)),
                              !.processed_ids = @ \cup {mismatch.chain_id},
                              !.i = @ + 1]
             ELSE [mem EXCEPT !.chains = DictSet(@, mismatch.chain_id, r.new_chain),
                              !.fixed = @ + 1,
                              !.processed_ids = @ \cup {mismatch.chain_id},
                              !.i = @ + 1],
     checked |-> TRUE,
     last |-> StepRecord("fix_chains_gemini", mismatch.chain_id, reply.names, r.found,
                         r.missing = <<>>, EntryOf(mem.chains, mismatch.chain_id))]

\* one iteration of the loop of fix_chains_gemini.main: reply is what the
\* environment answers for the record, kind "no_text" when get_hadith_text
\* finds nothing, "error" when the call or the parsing raises, "chain" with
\* the name_ar fields of correct_chain otherwise
gemini_step(mem, mismatch, reply, narrator_index) ==
    IF reply.kind = "no_text" THEN GeminiSkip(mem, mismatch, <<"No hadith text">>)
    ELSE IF reply.kind = "error" THEN GeminiSkip(mem, mismatch, <<"Gemini error">>)
    ELSE IF reply.names = <<>> THEN GeminiSkip(mem, mismatch, <<"Empty result">>)
    ELSE GeminiApply(mem, mismatch, reply,
                     GeminiMapFrom(reply.names, 1, narrator_index, NoMapped(<<>>)))

\* mismatch_by_chain = {m["chain_id"]: m for m in mismatched}
RECURSIVE MismatchByChainFrom(_, _, _)
MismatchByChainFrom(mismatched, i, by_chain) ==
    IF i > Len(mismatched) THEN by_chain
    ELSE MismatchByChainFrom(mismatched, i + 1,
                             DictSet(by_chain, mismatched[i].chain_id, mismatched[i]))

mismatch_by_chain_of(mismatched) == MismatchByChainFrom(mismatched, 1, <<>>)

\* fix_skipped_chains.extract_chain_from_skipped, then the CSV fallback of main
ChainNamesOf(entry, mismatch_by_chain) ==
    IF entry.has_gemini_chain /\ entry.gemini_chain /= <<>> THEN entry.gemini_chain
    ELSE IF DictHas(mismatch_by_chain, entry.chain_id)
         THEN DictGet(mismatch_by_chain, entry.chain_id).csv_chain
         ELSE <<>>

\* lines 178-189 of fix_skipped_chains.main
SkippedApply(mem, entry, chain_names, r) ==
    [mem |-> IF r.missing /= <<>>
             THEN [mem EXCEPT !.unfixable =
                                 Append(@, [hadith_id |-> entry.hadith_id,
                                            chain_id |-> entry.chain_id,
                                            chain_names |-> chain_names,
                                            missing_narrators |-> r.missing,
                                            partial_chain |-> r.new_chain]),
                              !.i = @ + 1]
             ELSE [mem EXCEPT !.chains = DictSet(@, entry.chain_id, r.new_chain),
                              !.fixed = @ + 1, !.i = @ + 1],
     last |-> StepRecord("fix_skipped_chains", entry.chain_id, chain_names, r.found,
                         r.missing = <<>>, EntryOf(mem.chains, entry.chain_id))]

SkippedNames(mem, entry, chain_names, narrator_index, aliases) ==
    IF chain_names = <<>>
    THEN [mem |-> [mem EXCEPT !.unfixable =
                                 Append(@, [hadith_id |-> entry.hadith_id,
                                            chain_id |-> entry.chain_id,
                                            reason |-> entry.reason]),
                              !.i = @ + 1],
          last |-> StepRecord("fix_skipped_chains", entry.chain_id, <<>>, <<>>, FALSE,
                              EntryOf(mem.chains, entry.chain_id))]
    ELSE SkippedApply(mem, entry, chain_names,
                      SkippedMapFrom(chain_names, 1, narrator_index, aliases, NoMapped(<<>>)))

\* one iteration of the loop of fix_skipped_chains.main
skipped_step(mem, entry, mismatch_by_chain, narrator_index, aliases) ==
    SkippedNames(mem, entry, ChainNamesOf(entry, mismatch_by_chain), narrator_index, aliases)

(***************************************************************************)
(* fix_chain_data: a Latin letter is written "L" followed by the letter    *)
(***************************************************************************)
\* str.lower() on the Latin capitals of the names of the pool
lower(s) ==
    [i \in 1..Len(s) |-> IF s[i] = "LH" THEN "Lh"
                          ELSE IF s[i] = "LU" THEN "Lu"
                          ELSE IF s[i] = "LA" THEN "La" ELSE s[i]]

\* name_to_id_cache as fix_chain_data.main fills it before the loop; an entry
\* of narrators holds nameAr and nameEn, <<>> when the field is empty
RECURSIVE DataCacheFrom(_, _, _)
DataCacheFrom(narrators, i, cache) ==
    IF i > Len(narrators) THEN cache
    ELSE LET c1 == IF narrators[i].nameAr /= <<>>
                   THEN DictSet(cache, normalize_arabic_cmp(narrators[i].nameAr), i - 1)
                   ELSE cache
             c2 == IF narrators[i].nameEn /= <<>>
                   THEN DictSet(c1, Strip(lower(narrators[i].nameEn)), i - 1)
                   ELSE c1
         IN  DataCacheFrom(narrators, i + 1, c2)

\* the first loop of fix_chain_data.find_narrator_id: an exact Arabic or
\* English match
RECURSIVE DataExactFrom(_, _, _, _, _)
DataExactFrom(normalized_ar, normalized_en, narrators, i, cache) ==
    IF i > Len(narrators) THEN [id |-> <<>>, cache |-> cache]
    ELSE IF normalize_arabic_cmp(narrators[i].nameAr) = normalized_ar
         THEN [id |-> <<i - 1>>, cache |-> DictSet(cache, normalized_ar, i - 1)]
         ELSE IF Strip(lower(narrators[i].nameEn)) = normalized_en
              THEN [id |-> <<i - 1>>, cache |-> DictSet(cache, normalized_en, i - 1)]
              ELSE DataExactFrom(normalized_ar, normalized_en, narrators, i + 1, cache)

\* the second loop: one Arabic name inside the other
RECURSIVE DataPartialFrom(_, _, _, _)
DataPartialFrom(normalized_ar, narrators, i, cache) ==
    IF i > Len(narrators) THEN [id |-> <<>>, cache |-> cache]
    ELSE IF /\ Len(normalized_ar) > 3
            /\ \/ Contains(normalize_arabic_cmp(narrators[i].nameAr), normalized_ar)
               \/ Contains(normalized_ar, normalize_arabic_cmp(narrators[i].nameAr))
         THEN [id |-> <<i - 1>>, cache |-> DictSet(cache, normalized_ar, i - 1)]
         ELSE DataPartialFrom(normalized_ar, narrators, i + 1, cache)

DataSearch(normalized_ar, normalized_en, narrators, cache, exact) ==
    IF exact.id /= <<>> THEN exact
    ELSE DataPartialFrom(normalized_ar, narrators, 1, cache)

DataLookup(normalized_ar, normalized_en, narrators, cache) ==
    IF DictHas(cache, normalized_ar)
    THEN [id |-> <<DictGet(cache, normalized_ar)>>, cache |-> cache]
    ELSE IF DictHas(cache, normalized_en)
         THEN [id |-> <<DictGet(cache, normalized_en)>>, cache |-> cache]
         ELSE DataSearch(normalized_ar, normalized_en, narrators, cache,
                         DataExactFrom(normalized_ar, normalized_en, narrators, 1, cache))

\* fix_chain_data.find_narrator_id; the result carries the cache after the call
find_narrator_id_data(name_ar, name_en, narrators, cache) ==
    DataLookup(normalize_arabic_cmp(name_ar), Strip(lower(name_en)), narrators, cache)

\* "for narrator in chain_result.narrators" of process_hadith
RECURSIVE DataMapFrom(_, _, _, _)
DataMapFrom(names, i, narrators, r) ==
    IF i > Len(names) THEN r
    ELSE LET f == find_narrator_id_data(names[i].name_ar, names[i].name_en, narrators,
                                        r.cache)
         IN  DataMapFrom(names, i + 1, narrators, MapAdd(r, names[i], f.id, f.cache))

\* an entry of skipped_chains.json; correctChain is <<>> when the entry has
\* none and holds the list otherwise
DataSkipped(hadith, reason, correctChain) ==
    [chainId |-> hadith.chain_id, hadithId |-> hadith.hadith_id, reason |-> reason,
     correctChain |-> correctChain]

\* the Arabic names of an answer
NamesAr(names) == [k \in 1..Len(names) |-> names[k].name_ar]

\* lines 233-254 of fix_chain_data.process_hadith
DataApply(mem, hadith, reply, r) ==
    [mem |-> IF r.missing /= <<>>
             THEN [mem EXCEPT !.skipped_list =
                                 Append(@, DataSkipped(hadith, <<"Missing narrators", r.missing>>,
                                                       <<reply.narrators>>)),
                              !.cache = r.cache, !.i = @ + 1]
             ELSE IF <<r.new_chain>> /= EntryOf(mem.chains, hadith.chain_id)
                     /\ ~(r.new_chain = <<>> /\ EntryOf(mem.chains, hadith.chain_id) = <<>>)
                  THEN [mem EXCEPT !.chains = DictSet(@, hadith.chain_id, r.new_chain),
                                   !.fixed = @ + 1, !.cache = r.cache, !.i = @ + 1]
                  ELSE [mem EXCEPT !.cache = r.cache, !.i = @ + 1],
     last |-> StepRecord("fix_chain_data", hadith.chain_id, NamesAr(reply.narrators), r.found,
                         r.missing = <<>>, EntryOf(mem.chains, hadith.chain_id))]

\* fix_chain_data.process_hadith with its count in main: reply is what the
\* oracle answers for the record, kind "none" when the call or the parsing
\* raises
data_step(mem, hadith, reply, narrators) ==
    IF reply.kind = "none" \/ reply.narrators = <<>>
    THEN [mem |-> [mem EXCEPT !.skipped_list =
                                 Append(@, DataSkipped(hadith,
                                                       <<"Could not get chain from Gemini">>,
                                                       <<>>)),
                              !.i = @ + 1],
          last |-> StepRecord("fix_chain_data", hadith.chain_id, <<>>, <<>>, FALSE,
                              EntryOf(mem.chains, hadith.chain_id))]
    ELSE DataApply(mem, hadith, reply,
                   DataMapFrom(reply.narrators, 1, narrators, NoMapped(mem.cache)))

\* to_process of fix_chains_gemini.main; limit 0 stands for no limit
to_process_of(mismatches, processed_ids, limit) ==
    LET unprocessed == SelectSeq(mismatches, LAMBDA m : m.chain_id \notin processed_ids)
    IN  IF limit /= 0 THEN SubSeq(unprocessed, 1, Min(limit, Len(unprocessed)))
        ELSE unprocessed

\* HADITH_FILES: the books, in the order fix_chain_data.main visits their
\* files; the first two of the nine
HADITH_FILES == <<"bukhari", "muslim">>

\* "[h for h in hadiths if h.get("chainId")][:limit]" of fix_chain_data.main
\* for the file of one book, every record here having a chain id; limit 0
\* stands for no limit
BookHadiths(hadiths, book_key, limit) ==
    LET of_book == SelectSeq(hadiths, LAMBDA h : h.source = book_key)
    IN  IF limit /= 0 THEN SubSeq(of_book, 1, Min(limit, Len(of_book)))
        ELSE of_book

\* the hadiths main hands to process_hadith, book after book from the b-th
\* book on, the limit applied to the file of each book
RECURSIVE DataQueueFrom(_, _, _)
DataQueueFrom(hadiths, b, limit) ==
    IF b > Len(HADITH_FILES) THEN <<>>
    ELSE BookHadiths(hadiths, HADITH_FILES[b], limit)
            \o DataQueueFrom(hadiths, b + 1, limit)

\* the loop of fix_chains_gemini.main run to its end from position i
RECURSIVE GeminiLoopFrom(_, _, _)
GeminiLoopFrom(mem, replies, narrator_index) ==
    IF mem.i >= Len(mem.queue) THEN mem
    ELSE GeminiLoopFrom(gemini_step(mem, mem.queue[mem.i + 1],
                                    replies[mem.queue[mem.i + 1].hadith_id],
                                    narrator_index).mem,
                        replies, narrator_index)

(***************************************************************************)
(* translate_seera and GeminiTranslator (mki-agents/translate)             *)
(***************************************************************************)
\* config.py
MAX_RETRIES == 3

BATCH_SIZE == 10

TRANSLATE_COLUMNS == <<"title", "details", "location_name">>

\* load_progress: the checkpoint file, or the empty progress
NoTrProgress == [processed_ids |-> <<>>, translations |-> <<>>]

\* list(processed_ids): the set written as a list, here in increasing order
RECURSIVE ListOfSet(_)
ListOfSet(S) ==
    IF S = {} THEN <<>>
    ELSE LET x == CHOOSE x \in S : \A y \in S : x <= y
         IN  <<x>> \o ListOfSet(S \ {x})

SetOfList(l) == {l[k] : k \in 1..Len(l)}

\* the locals of translate_seera.main: the position in df.iterrows(), the
\* column being translated (0 before the first, 1..3), the attempts made by
\* translate_text on it, processed_ids, translations, event_translations,
\* and the FAILED lines printed
TrLocals(progress) ==
    [idx |-> 0, col |-> 0, attempt |-> 0,
     processed_ids |-> SetOfList(progress.processed_ids),
     translations |-> progress.translations,
     event_translations |-> <<>>, failed |-> <<>>]

\* translate_text asks the oracle only for a text that is not blank
NeedsCall(text) == text /= <<>> /\ Strip(text) /= <<>>

\* event_translations[col] = value, and on to the next column
ColumnDone(m, value) ==
    [m EXCEPT !.event_translations = DictSet(@, TRANSLATE_COLUMNS[m.col], value),
              !.col = @ + 1, !.attempt = 0]

\* the end of the body for one row: the event is recorded as processed
RowDone(m, event_id) ==
    [m EXCEPT !.translations = DictSet(@, event_id, m.event_translations),
              !.processed_ids = @ \cup {event_id},
              !.idx = @ + 1, !.col = 0, !.event_translations = <<>>]

\* save_progress(progress, progress_file)
SavedProgress(m) ==
    [processed_ids |-> ListOfSet(m.processed_ids), translations |-> m.translations]

\* the loop of main run from where it stands as far as the next place where
\* it waits or writes: a call of the oracle (line 109, "call"), the
\* time.sleep of line 115 ("sleep"), the periodic save_progress (line 127,
\* "save"), the final save after the loop (line 133, "end"); the result is
\* [m, at], the locals and the place
RECURSIVE TrRun(_, _)

\* lines 106-117 for one column: an empty cell is copied (line 117) and the
\* loop goes on; for a cell of blanks translate_text returns the text with
\* no call, it is stored (line 111) and main sleeps (line 115); for any
\* other text the oracle is called
TrColumn(m, events, text) ==
    IF text = <<>> THEN TrRun(ColumnDone(m, text), events)
    ELSE IF NeedsCall(text) THEN [m |-> m, at |-> "call"]
    ELSE [m |-> ColumnDone(m, text), at |-> "sleep"]

\* "if (idx + 1) % BATCH_SIZE == 0" at the end of the body, idx being the
\* index of the row just done
PeriodicSave(m, events) ==
    IF m.idx % BATCH_SIZE = 0 THEN [m |-> m, at |-> "save"] ELSE TrRun(m, events)

TrRow(m, events, row) ==
    IF m.col = 0
    THEN IF row.event_id \in m.processed_ids
         THEN TrRun([m EXCEPT !.idx = @ + 1], events)
         ELSE TrRun([m EXCEPT !.col = 1], events)
    ELSE IF m.col > Len(TRANSLATE_COLUMNS)
    THEN PeriodicSave(RowDone(m, row.event_id), events)
    ELSE TrColumn(m, events, row[TRANSLATE_COLUMNS[m.col]])

TrRun(m, events) ==
    IF m.idx >= Len(events) THEN [m |-> m, at |-> "end"]
    ELSE TrRow(m, events, events[m.idx + 1])

\* translate_text got an answer: response.text.strip(), or the text itself
\* when that is empty
Translated(text, reply_text) ==
    IF Strip(reply_text) /= <<>> THEN Strip(reply_text) ELSE text

\* the call raised: another attempt while fewer than MAX_RETRIES were made,
\* else translate_text returns None, FAILED is printed and the original
\* text is kept
AfterError(m, event_id, text) ==
    IF m.attempt + 1 < MAX_RETRIES THEN [m EXCEPT !.attempt = @ + 1]
    ELSE ColumnDone([m EXCEPT !.failed =
                        Append(@, [event_id |-> event_id,
                                   col |-> TRANSLATE_COLUMNS[m.col]])],
                    text)

\* one answer of the oracle to the call translate_text is waiting on; reply
\* is [kind, text], kind "text" or "error"
AfterReply(m, event_id, text, reply) ==
    IF reply.kind = "text" THEN ColumnDone(m, Translated(text, reply.text))
    ELSE AfterError(m, event_id, text)

\* lines 109-114 of main for that answer: the locals, and the place main
\* goes to, the call again for another attempt or the time.sleep of line 115
translate_reply(m, events, reply) ==
    LET after == AfterReply(m, events[m.idx + 1].event_id,
                            events[m.idx + 1][TRANSLATE_COLUMNS[m.col]], reply)
    IN  [m |-> after, at |-> IF after.col = m.col THEN "call" ELSE "sleep"]

\* what a write that is stopped leaves of a list: its start, from nothing to
\* every item
Prefixes(list) == {SubSeq(list, 1, k) : k \in 0..Len(list)}

\* the progress file after a stop inside json.dump: the file was emptied by
\* open(..., "w") and holds the start of the text, the processed ids first.
\* list(processed_ids) lists a set of strings, in an order that changes from
\* one run to the next, so the ids written so far are any of them
CutProgress(progress) ==
    { [processed_ids |-> ListOfSet(ids), translations |-> <<>>] :
        ids \in SUBSET SetOfList(progress.processed_ids) }
    \cup { [processed_ids |-> progress.processed_ids, translations |-> tr] :
             tr \in Prefixes(progress.translations) }

\* the row of the output CSV for one event
OutputRow(row, translations) ==
    IF DictHas(translations, row.event_id)
    THEN [c \in DOMAIN row |->
            IF c /= "event_id" /\ DictHas(DictGet(translations, row.event_id), c)
            THEN DictGet(DictGet(translations, row.event_id), c) ELSE row[c]]
    ELSE row

output_rows(events, translations) ==
    [k \in 1..Len(events) |-> OutputRow(events[k], translations)]

(***************************************************************************)
(* Bounds and input pools                                                  *)
(***************************************************************************)
\* the longest name enumerated character by character
MaxNameLen == 3

\* the longest narrator list handed to the clusterer
MaxNarrators == 3

StringsUpTo(alphabet, n) == UNION {[1..k -> alphabet] : k \in 0..n}

SeqsUpTo(pool, lo, n) == UNION {[1..k -> pool] : k \in lo..n}

NormAlphabet == {"w", ">", "A", "n", "a", " "}

\* Abu Hurayra in three spellings, kunyah forms, a conjunction prefix
Name_AbuHurayra1 == <<">","b","w"," ","h","r","y","r","p">>
Name_AbuHurayra2 == <<"A","b","w"," ","h","r","y","r","h">>
Name_AbuHurayra3 == <<">","a","b","u","w"," ","h","u","r","a","y","o","r","a","p","a">>
Name_AbiHurayra == <<">","b","y"," ","h","r","y","r","p">>
Name_wAnas1 == <<"w",">","n","s">>
Name_wAnas2 == <<"w","A","n","s">>
Name_Anas == <<">","n","s">>
Name_AnAnAnas == <<"E","n"," ","E","n"," ",">","n","s">>
Name_IbnAbiAbi == <<"b","n"," ",">","b","y"," ",">","b","y"," ","s">>
Name_Abihi == <<">","b","y","h">>
Name_Blank == <<" ">>

\* names in Latin letters
EnName_Hisham == <<"LH", "Li", "Ls", "Lh", "La", "Lm">>
EnName_Urwa == <<"LU", "Lr", "Lw", "La">>
EnName_Aisha == <<"LA", "Li", "Ls", "Lh", "La">>
EnName_Anas == <<"LA", "Ln", "La", "Ls">>

\* a lone conjunction letter carrying a vowel mark
Name_Waw == <<"w", "a">>

NamePool == {Name_AbuHurayra1, Name_AbuHurayra2, Name_AbuHurayra3, Name_AbiHurayra,
             Name_wAnas1, Name_wAnas2, Name_Anas, Name_AnAnAnas, Name_IbnAbiAbi,
             Name_Abihi, Name_Blank}

ClusterPool == {Name_AbuHurayra1, Name_AbuHurayra2, Name_AbuHurayra3, Name_AbiHurayra,
                Name_wAnas1, Name_wAnas2, Name_Anas, Name_Abihi, Name_Blank, Name_Waw,
                <<>>}

\* research entries: one whose canonical name is a father term, one that
\* names its narrator in matchVariants and brings a longer canonical name,
\* one found by its kunyah, and one that matches nothing
MaxResearch == 2

Name_AnasIbnMalik == <<">", "n", "s", " ", "b", "n", " ", "m", "A", "l", "k">>
Name_AbdAlRahman == <<"E", "b", "d", " ", "A", "l", "r", "H", "m", "n">>
Name_Malik == <<"m", "A", "l", "k">>

\* narrators for the runs that end with the merge: two spellings of one
\* name, a name, a father term and an empty text
ResearchNamePool == {Name_AbuHurayra1, Name_AbiHurayra, Name_Anas, Name_Abihi, <<>>}

NoMerge == [narrators |-> <<>>, i |-> 0, matched |-> 0, unmatched |-> <<>>]

ResearchPool ==
    { [canonicalName |-> Name_Abihi, nameEn |-> <<>>, kunyah |-> <<>>, nasab |-> <<>>,
       matchVariants |-> <<>>],
      [canonicalName |-> Name_AnasIbnMalik, nameEn |-> EnName_Anas, kunyah |-> <<>>,
       nasab |-> <<>>, matchVariants |-> <<Name_Anas>>],
      [canonicalName |-> Name_AbdAlRahman, nameEn |-> <<>>, kunyah |-> Name_AbuHurayra1,
       nasab |-> <<>>, matchVariants |-> <<>>],
      [canonicalName |-> Name_Malik, nameEn |-> <<>>, kunyah |-> <<>>, nasab |-> <<>>,
       matchVariants |-> <<>>] }

RawisIndexPool ==
    { <<>>,
      << <<Name_AbuHurayra2, [scholar_indx |-> 1, nameAr |-> Name_AbuHurayra1]>>,
         << <<"A","b","y","h">>, [scholar_indx |-> 2, nameAr |-> Name_Abihi]>> >> }

\* names of the chain inputs
Name_Hisham == <<"h", "$", "A", "m", " ", "b", "n", " ", "E", "r", "w", "p">>
Name_Urwa == <<"E", "r", "w", "p">>
Name_Aisha == <<"E", "A", "}", "$", "p">>
Name_AlZubayr == <<"A", "l", "z", "b", "y", "r">>
Name_AnasFull == <<">", "n", "s", " ", "b", "n", " ", "m", "A", "l", "k">>
Term_Abihi == <<">", "b", "y", "h">>
Term_AbihiPlain == <<"A", "b", "y", "h">>
Name_HishamLong ==
    <<"h", "$", "A", "m", " ", "b", "n", " ", "E", "r", "w", "p", " ", "b", "n", " ",
      "A", "l", "z", "b", "y", "r">>
\* a father term that names the father
Term_AbihiNamed == <<">", "b", "y", "h", " ", "E", "r", "w", "p">>
\* a mother term
Term_Ummih == <<">", "m", "h">>
\* a grandfather term, plain and with a shadda only
Term_Jaddih == <<"j", "d", "h">>
Term_JaddihShadda == <<"j", "d", "~", "h">>

\* bound on the number of dataset rows of one run
MaxRows == 2

\* the longest list of names in a Sanad field of the pool
MaxChainItems == 4

\* Sanad fields: a father term after a patronymic, the same chain spelled
\* out, a term the builder's patterns miss, a term after a plain name, a
\* term in first position, two terms in a row of which the builder resolves
\* the first, a father term with the name in it, a mother term, a
\* grandfather term after a
\* name with two patronymic levels
\* in the spelling the builder's patterns know and in one they miss, the
\* same father term twice in a chain, and a
\* field that is not a list
SanadPool ==
    { [ok |-> TRUE, items |-> <<Name_Hisham, Term_Abihi, Name_Aisha>>, unhashable |-> FALSE],
      [ok |-> TRUE, items |-> <<Name_Hisham, Name_Urwa, Name_Aisha>>, unhashable |-> FALSE],
      [ok |-> TRUE, items |-> <<Name_Hisham, Term_AbihiPlain, Name_Aisha>>, unhashable |-> FALSE],
      [ok |-> TRUE, items |-> <<Name_Urwa, Term_AbihiPlain>>, unhashable |-> FALSE],
      [ok |-> TRUE, items |-> <<Term_AbihiPlain, Name_Urwa>>, unhashable |-> FALSE],
      [ok |-> TRUE, items |-> <<Name_Hisham, Term_Abihi, Term_AbihiPlain>>, unhashable |-> FALSE],
      [ok |-> TRUE, items |-> <<Name_Hisham, Term_AbihiNamed>>, unhashable |-> FALSE],
      [ok |-> TRUE, items |-> <<Name_Hisham, Term_Ummih>>, unhashable |-> FALSE],
      [ok |-> TRUE, items |-> <<Name_HishamLong, Term_Jaddih>>, unhashable |-> FALSE],
      [ok |-> TRUE, items |-> <<Name_HishamLong, Term_JaddihShadda>>, unhashable |-> FALSE],
      [ok |-> TRUE, items |-> <<Name_Hisham, Term_AbihiPlain, Name_AnasFull, Term_AbihiPlain>>, unhashable |-> FALSE],
      [ok |-> FALSE, items |-> <<>>, unhashable |-> FALSE] }

\* dataset rows: book is the key of the row's Book, "other" for a book that
\* is not a target; num is int(float(Num_hadith)), -1 for a field that is
\* not a number, -2 for a field that float() reads as infinity; the last
\* two rows stop the program, one with the OverflowError of int(), one with
\* the TypeError of ast.literal_eval on a field such as "{[1]: 2}"
RowPool ==
    { [book |-> "bukhari", num |-> n, sanad |-> sd] : n \in {1, 2}, sd \in SanadPool }
    \cup { [book |-> "other", num |-> 1,
            sanad |-> [ok |-> TRUE, items |-> <<Name_Urwa, Name_Aisha>>, unhashable |-> FALSE]],
           [book |-> "bukhari", num |-> -1,
            sanad |-> [ok |-> TRUE, items |-> <<Name_Urwa, Name_Aisha>>, unhashable |-> FALSE]],
           [book |-> "bukhari", num |-> -2,
            sanad |-> [ok |-> TRUE, items |-> <<Name_Urwa, Name_Aisha>>, unhashable |-> FALSE]],
           [book |-> "bukhari", num |-> 1,
            sanad |-> [ok |-> FALSE, items |-> <<>>, unhashable |-> TRUE]] }

\* the father maps resolve_kinship.main builds from the enriched file and
\* from the biography table
NarratorToFatherPool == { <<>>, << <<normalize(Name_Urwa), Name_AlZubayr>> >> }
KnownFathersPool == { <<>>, << <<normalize(Name_Urwa), Name_AlZubayr>> >> }

(***************************************************************************)
(* The normalizer applied to a name, and again to its own output           *)
(***************************************************************************)
NormOff ==
    /\ norm_pc = "off" /\ norm_variant = "none"
    /\ norm_text = <<>> /\ norm_once = <<>> /\ norm_twice = <<>>

NormInit ==
    /\ norm_pc = "start"
    /\ norm_variant \in {"build_narrator_database", "enrich_narrators"}
    /\ norm_text \in StringsUpTo(NormAlphabet, MaxNameLen) \cup NamePool
    /\ norm_once = <<>> /\ norm_twice = <<>>

Normalizer(variant, text) ==
    IF variant = "build_narrator_database" THEN normalize_arabic(text)
    ELSE normalize_arabic_enrich(text)

NormalizeOnce ==
    /\ norm_pc = "start"
    /\ norm_once' = Normalizer(norm_variant, norm_text)
    /\ norm_pc' = "once"
    /\ UNCHANGED <<norm_variant, norm_text, norm_twice, normFrame>>

NormalizeAgain ==
    /\ norm_pc = "once"
    /\ norm_twice' = Normalizer(norm_variant, norm_once)
    /\ norm_pc' = "twice"
    /\ UNCHANGED <<norm_variant, norm_text, norm_once, normFrame>>

(***************************************************************************)
(* build_narrator_database.main                                            *)
(***************************************************************************)
DbOff ==
    /\ db_pc = "off" /\ db_narrators = <<>> /\ db_rawis_index = <<>>
    /\ db_idx = 0 /\ db_groups = <<>> /\ db_database = <<>>
    /\ db_research = <<>> /\ db_lookup_index = <<>> /\ db_merge = NoMerge

DbInit ==
    /\ db_pc = "group"
    /\ db_narrators \in SeqsUpTo(ClusterPool, 1, MaxNarrators)
    /\ db_rawis_index \in RawisIndexPool
    /\ db_idx = 0 /\ db_groups = <<>> /\ db_database = <<>>
    /\ db_research = <<>> /\ db_lookup_index = <<>> /\ db_merge = NoMerge

\* the same program on the narrators the research entries are about
DbInitResearch ==
    /\ db_pc = "group"
    /\ db_narrators \in SeqsUpTo(ResearchNamePool, 1, MaxNarrators)
    /\ db_rawis_index \in RawisIndexPool
    /\ db_idx = 0 /\ db_groups = <<>> /\ db_database = <<>>
    /\ db_research = <<>> /\ db_lookup_index = <<>> /\ db_merge = NoMerge

\* one iteration of "for idx, name in enumerate(narrators)"
GroupStep ==
    /\ db_pc = "group" /\ db_idx < Len(db_narrators)
    /\ db_groups' = GroupAdd(db_groups, db_idx, db_narrators[db_idx + 1])
    /\ db_idx' = db_idx + 1
    /\ UNCHANGED <<db_pc, db_narrators, db_rawis_index, db_database, db_research,
                   db_lookup_index, db_merge, dbFrame>>

\* the loop is over: the groups are returned and the database is created
CreateDatabase ==
    /\ db_pc = "group" /\ db_idx = Len(db_narrators)
    /\ db_database' = create_narrator_database(db_groups, db_rawis_index)
    /\ db_pc' = "done"
    /\ UNCHANGED <<db_narrators, db_rawis_index, db_idx, db_groups, db_research,
                   db_lookup_index, db_merge, dbFrame>>

\* merge_narrator_research.main, run on the narrators_grouped.json that
\* build_narrator_database.main saved, up to its loop: the file is loaded,
\* the lookup index is built once, and the entries of the files of
\* narrator_research are read
MergeLoad ==
    /\ db_pc = "done"
    /\ db_research' \in SeqsUpTo(ResearchPool, 0, MaxResearch)
    /\ db_lookup_index' = build_lookup_index(db_database)
    /\ db_merge' = [narrators |-> db_database, i |-> 0, matched |-> 0, unmatched |-> <<>>]
    /\ db_pc' = "merge"
    /\ UNCHANGED <<db_narrators, db_rawis_index, db_idx, db_groups, db_database, dbFrame>>

\* the directory narrator_research does not exist: it is created and main
\* returns, the file as it was
MergeNoResearch ==
    /\ db_pc = "done"
    /\ db_lookup_index' = build_lookup_index(db_database)
    /\ db_pc' = "returned"
    /\ UNCHANGED <<db_narrators, db_rawis_index, db_idx, db_groups, db_database,
                   db_research, db_merge, dbFrame>>

\* one iteration of "for research in research_entries"
MergeStep ==
    /\ db_pc = "merge" /\ db_merge.i < Len(db_research)
    /\ db_merge' = [merge_step(db_merge, db_research[db_merge.i + 1], db_lookup_index)
                       EXCEPT !.i = @ + 1]
    /\ UNCHANGED <<db_pc, db_narrators, db_rawis_index, db_idx, db_groups, db_database,
                   db_research, db_lookup_index, dbFrame>>

\* the loop is over: narrators_grouped.json is written again
MergeSave ==
    /\ db_pc = "merge" /\ db_merge.i = Len(db_research)
    /\ db_database' = db_merge.narrators
    /\ db_pc' = "merged"
    /\ UNCHANGED <<db_narrators, db_rawis_index, db_idx, db_groups, db_research,
                   db_lookup_index, db_merge, dbFrame>>

(***************************************************************************)
(* extract_sanad_normalized.main followed by resolve_kinship.main          *)
(***************************************************************************)
BldOff ==
    /\ bld_pc = "off" /\ bld_rows = <<>> /\ bld_i = 0
    /\ bld_narrator_to_id = <<>> /\ bld_chain_to_id = <<>>
    /\ bld_chain_id_to_narrator_ids = <<>> /\ bld_hadith_chain_lookup = <<>>
    /\ bld_next_narrator_id = 0 /\ bld_next_chain_id = 0
    /\ fs_narrators = <<>> /\ fs_chains = <<>>
    /\ json_present = FALSE /\ json_narrators = <<>> /\ json_chains = <<>>

KinOff ==
    /\ kin_pc = "off" /\ kin_narrators = <<>> /\ kin_chains = <<>>
    /\ kin_known_fathers = <<>> /\ kin_narrator_to_father = <<>>
    /\ kin_c = 0 /\ kin_pos = 0 /\ kin_resolutions = <<>>
    /\ kin_stats = [total_kinship_refs |-> 0, resolved |-> 0, unresolved |-> 0,
                    by_type |-> <<>>]
    /\ kin_resolved_names = <<>>

BldInit ==
    /\ bld_pc = "build" /\ bld_rows \in SeqsUpTo(RowPool, 1, MaxRows) /\ bld_i = 0
    /\ bld_narrator_to_id = <<>> /\ bld_chain_to_id = <<>>
    /\ bld_chain_id_to_narrator_ids = <<>> /\ bld_hadith_chain_lookup = <<>>
    /\ bld_next_narrator_id = 0 /\ bld_next_chain_id = 0
    /\ fs_narrators = <<>> /\ fs_chains = <<>>
    /\ json_present = FALSE /\ json_narrators = <<>> /\ json_chains = <<>>

KinInit ==
    /\ kin_pc = "wait" /\ kin_narrators = <<>> /\ kin_chains = <<>>
    /\ kin_known_fathers = <<>> /\ kin_narrator_to_father = <<>>
    /\ kin_c = 0 /\ kin_pos = 0 /\ kin_resolutions = <<>>
    /\ kin_stats = [total_kinship_refs |-> 0, resolved |-> 0, unresolved |-> 0,
                    by_type |-> <<>>]
    /\ kin_resolved_names = <<>>

\* the tables of build_normalized_data
BldTables ==
    [narrator_to_id |-> bld_narrator_to_id,
     next_narrator_id |-> bld_next_narrator_id,
     chain_to_id |-> bld_chain_to_id,
     chain_id_to_narrator_ids |-> bld_chain_id_to_narrator_ids,
     next_chain_id |-> bld_next_chain_id,
     hadith_chain_lookup |-> bld_hadith_chain_lookup]

BldSetTables(t) ==
    /\ bld_narrator_to_id' = t.narrator_to_id
    /\ bld_next_narrator_id' = t.next_narrator_id
    /\ bld_chain_to_id' = t.chain_to_id
    /\ bld_chain_id_to_narrator_ids' = t.chain_id_to_narrator_ids
    /\ bld_next_chain_id' = t.next_chain_id
    /\ bld_hadith_chain_lookup' = t.hadith_chain_lookup

\* one iteration of the loop over df_filtered.iterrows().  An exception
\* that leaves build_normalized_data leaves main as well: the program stops
\* at the row, save_normalized_files is never called and no file is written.
BuildRow ==
    /\ bld_pc = "build" /\ bld_i < Len(bld_rows)
    /\ LET r == build_row(BldTables, bld_rows[bld_i + 1])
       IN  IF IsRaised(r)
           THEN /\ bld_pc' = "raised"
                /\ UNCHANGED <<bld_i, bld_narrator_to_id, bld_chain_to_id,
                               bld_chain_id_to_narrator_ids, bld_hadith_chain_lookup,
                               bld_next_narrator_id, bld_next_chain_id>>
           ELSE /\ bld_pc' = bld_pc
                /\ bld_i' = bld_i + 1
                /\ BldSetTables(r)
    /\ UNCHANGED <<bld_rows, fs_narrators, fs_chains, json_present, json_narrators,
                   json_chains, kinVars, bldFrame>>

\* save_normalized_files: the two files are written in HADITH_DATA_DIR
\* (public/data/hadith)
SaveNormalizedFiles ==
    /\ bld_pc = "build" /\ bld_i = Len(bld_rows)
    /\ bld_pc' = "done"
    /\ fs_narrators' = narrators_list(bld_narrator_to_id)
    /\ fs_chains' = bld_chain_id_to_narrator_ids
    /\ UNCHANGED <<bld_rows, bld_i, bld_narrator_to_id, bld_chain_to_id,
                   bld_chain_id_to_narrator_ids, bld_hadith_chain_lookup,
                   bld_next_narrator_id, bld_next_chain_id, json_present,
                   json_narrators, json_chains, kinVars, bldFrame>>

\* The environment of the two programs.  save_normalized_files writes in
\* public/data/hadith and resolve_kinship.main reads in json-datasets; no
\* program of the repository carries narrators.json and chains.json from
\* the one directory to the other: whoever runs the pipeline does, by hand,
\* once the builder has written them.
CopyToJsonDir ==
    /\ bld_pc = "done" /\ kin_pc = "wait"
    /\ <<json_present, json_narrators, json_chains>> /= <<TRUE, fs_narrators, fs_chains>>
    /\ json_present' = TRUE
    /\ json_narrators' = fs_narrators
    /\ json_chains' = fs_chains
    /\ UNCHANGED <<bld_pc, bld_rows, bld_i, bld_narrator_to_id, bld_chain_to_id,
                   bld_chain_id_to_narrator_ids, bld_hadith_chain_lookup,
                   bld_next_narrator_id, bld_next_chain_id, fs_narrators, fs_chains,
                   kinVars, bldFrame>>

\* resolve_kinship.main up to the call of resolve_kinship_in_chains: the
\* narrators and chains files of JSON_DIR (json-datasets) and the two father
\* maps are loaded.  Run while the files are not there, whatever the builder
\* has done, open() raises FileNotFoundError: the run ends with nothing
\* loaded and nothing written, and the program is still to be run.
KinLoad ==
    /\ kin_pc = "wait"
    /\ IF json_present
       THEN /\ kin_pc' = "loop"
            /\ kin_narrators' = json_narrators
            /\ kin_chains' = json_chains
            /\ kin_known_fathers' \in KnownFathersPool
            /\ kin_narrator_to_father' \in NarratorToFatherPool
            /\ kin_c' = 1 /\ kin_pos' = 0
       ELSE UNCHANGED <<kin_pc, kin_narrators, kin_chains, kin_known_fathers,
                        kin_narrator_to_father, kin_c, kin_pos>>
    /\ UNCHANGED <<kin_resolutions, kin_stats, kin_resolved_names, bldVars, kinFrame>>

KinResult ==
    [resolutions |-> kin_resolutions, stats |-> kin_stats,
     resolved_names |-> kin_resolved_names]

KinSetResult(r) ==
    /\ kin_resolutions' = r.resolutions
    /\ kin_stats' = r.stats
    /\ kin_resolved_names' = r.resolved_names

\* one iteration of "for pos, idx in enumerate(indices)" for the chain at
\* place kin_c of chains.items()
KinStep ==
    /\ kin_pc = "loop" /\ kin_c <= Len(kin_chains)
    /\ KinSetResult(kinship_step(KinResult, kin_c, kin_chains, kin_pos, kin_narrators,
                                 [known_fathers |-> kin_known_fathers,
                                  narrator_to_father |-> kin_narrator_to_father]))
    /\ IF kin_pos + 1 < Len(kin_chains[kin_c][2])
       THEN kin_pos' = kin_pos + 1 /\ kin_c' = kin_c
       ELSE kin_pos' = 0 /\ kin_c' = kin_c + 1
    /\ UNCHANGED <<kin_pc, kin_narrators, kin_chains, kin_known_fathers,
                   kin_narrator_to_father, bldVars, kinFrame>>

\* the loop over chains.items() is over: the result is returned and saved
KinDone ==
    /\ kin_pc = "loop" /\ kin_c > Len(kin_chains)
    /\ kin_pc' = "done"
    /\ UNCHANGED <<kin_narrators, kin_chains, kin_known_fathers,
                   kin_narrator_to_father, kin_c, kin_pos, kin_resolutions,
                   kin_stats, kin_resolved_names, bldVars, kinFrame>>

(***************************************************************************)
(* validate_chains.main: one record compared and counted                   *)
(***************************************************************************)
Name_UrwaFull == <<"E", "r", "w", "p", " ", "b", "n", " ", "A", "l", "z", "b", "y", "r">>
Name_Rwh == <<"r", "w", "p">>
\* Urwa with two further generations
Name_UrwaLong ==
    <<"E", "r", "w", "p", " ", "b", "n", " ", "A", "l", "z", "b", "y", "r", " ", "b", "n", " ",
      "A", "l", "E", "w", "A", "m">>

\* bound on the length of a name list
MaxChainLen == 2

\* names as get_json_chain_names and get_csv_chain_names deliver them
ValNames ==
    { normalize_arabic_cmp(n) :
        n \in {Name_Hisham, Name_Urwa, Name_UrwaFull, Name_Aisha, Name_AnasFull, Name_Rwh} }

ValChains == SeqsUpTo(ValNames, 1, MaxChainLen)

ValOff ==
    /\ val_pc = "off" /\ val_json_names = <<>> /\ val_csv_names = <<>>
    /\ val_result = [is_match |-> FALSE, reason |-> <<>>, compared |-> 0]
    /\ val_stats = [matched |-> 0, mismatched |-> 0]
    /\ val_mismatches = <<>>

\* both name lists are non-empty when main reaches the comparison
ValInit ==
    /\ val_pc = "compare"
    /\ val_json_names \in ValChains /\ val_csv_names \in ValChains
    /\ val_result = [is_match |-> FALSE, reason |-> <<>>, compared |-> 0]
    /\ val_stats = [matched |-> 0, mismatched |-> 0]
    /\ val_mismatches = <<>>

\* is_match, reason = chains_match(json_names, csv_names)
ValCompare ==
    /\ val_pc = "compare"
    /\ val_pc' = "count"
    /\ val_result' = chains_match(val_json_names, val_csv_names)
    /\ UNCHANGED <<val_json_names, val_csv_names, val_stats, val_mismatches, valFrame>>

\* "if is_match: ... else: ..." of main
ValCount ==
    /\ val_pc = "count"
    /\ val_pc' = "done"
    /\ IF val_result.is_match
       THEN /\ val_stats' = [val_stats EXCEPT !.matched = @ + 1]
            /\ UNCHANGED val_mismatches
       ELSE /\ val_stats' = [val_stats EXCEPT !.mismatched = @ + 1]
            /\ val_mismatches' =
                 Append(val_mismatches,
                        [json_chain |-> val_json_names, csv_chain |-> val_csv_names,
                         json_count |-> Len(val_json_names),
                         csv_count |-> Len(val_csv_names),
                         mismatch_reason |-> val_result.reason])
    /\ UNCHANGED <<val_json_names, val_csv_names, val_result, valFrame>>

(***************************************************************************)
(* The four matchers, each in a run of its own program                     *)
(***************************************************************************)
Name_AbihiUrwa == <<">", "b", "y", "h", " ", "(", "E", "r", "w", "p", ")">>

\* bound on the rows of the rawi table and on the narrators list
MaxIndexed == 2

\* bound on the calls of a matcher in one run
MaxCalls == 2

\* Arabic names of the rawi table
RawiNamePool == {Name_Hisham, Name_UrwaFull, Name_AbuHurayra1}

\* nameAr fields of narrators.json
IndexedNamePool == {Name_Hisham, Name_Urwa, Name_UrwaFull, Name_AbihiUrwa}

\* narrators.json of the CSV-driven pass: also a name that holds the others
CsvIndexedNamePool == IndexedNamePool \cup {Name_HishamLong}

\* narrator_aliases.json: empty, or a father term mapped to an id
AliasFilePool == { <<>>, << <<Term_Abihi, 0>> >> }

\* the names looked up
MtQueries ==
    {Name_Hisham, Name_Urwa, Name_UrwaFull, Name_AbihiUrwa, Name_HishamLong, Name_Rwh,
     Name_Aisha, Term_Abihi, <<>>}

\* CSV names: also one that two indexed names start
CsvQueries == MtQueries \cup {Name_UrwaLong}

\* thresholds: the 0.6 of main, and one below and one above it
ThresholdPool == { <<3, 5>>, <<3, 10>>, <<9, 10>> }

NoCall == [fn |-> "none", query |-> <<>>, threshold |-> <<3, 5>>, use_fuzzy |-> FALSE]

NoResult == [id |-> <<>>, match |-> <<>>, score |-> FloatZero]

NoCsvIndex == [exact_ar |-> <<>>, word_index |-> <<>>]

MtOff ==
    /\ mt_pc = "off" /\ mt_rawi_index = <<>> /\ mt_csv_index = NoCsvIndex
    /\ mt_narrator_index = <<>> /\ mt_aliases = <<>> /\ mt_cache = <<>>
    /\ mt_calls = 0 /\ mt_call = NoCall /\ mt_result = NoResult

\* the tables one of the four programs has built when its loop starts
MtTables(pc, rawi_names, narrators, aliases) ==
    /\ mt_pc = pc
    /\ mt_rawi_index = IF pc = "enrich_narrators" THEN build_rawi_index(rawi_names) ELSE <<>>
    /\ mt_csv_index = IF pc = "fix_chains_from_csv" THEN build_narrator_index_csv(narrators)
                      ELSE NoCsvIndex
    /\ mt_narrator_index = IF pc \in {"fix_chains_gemini", "fix_skipped_chains"}
                           THEN build_narrator_index(narrators) ELSE <<>>
    /\ mt_aliases = IF pc = "fix_skipped_chains" THEN normalized_aliases_of(aliases) ELSE <<>>

MtInit ==
    /\ \/ \E rawi_names \in SeqsUpTo(RawiNamePool, 0, MaxIndexed) :
             MtTables("enrich_narrators", rawi_names, <<>>, <<>>)
       \/ \E narrators \in SeqsUpTo(CsvIndexedNamePool, 1, MaxIndexed) :
             MtTables("fix_chains_from_csv", <<>>, narrators, <<>>)
       \/ \E narrators \in SeqsUpTo(IndexedNamePool, 1, MaxIndexed) :
             \/ MtTables("fix_chains_gemini", <<>>, narrators, <<>>)
             \/ \E aliases \in AliasFilePool :
                   MtTables("fix_skipped_chains", <<>>, narrators, aliases)
    /\ mt_cache = <<>> /\ mt_calls = 0 /\ mt_call = NoCall /\ mt_result = NoResult

MtCalled(fn, query, threshold, use_fuzzy) ==
    /\ mt_calls' = mt_calls + 1
    /\ mt_call' = [fn |-> fn, query |-> query, threshold |-> threshold,
                   use_fuzzy |-> use_fuzzy]
    /\ UNCHANGED <<mt_pc, mt_rawi_index, mt_csv_index, mt_narrator_index, mt_aliases,
                   mtFrame>>

\* match, score = find_best_match(narrator_name, rawi_index, normalized_keys, ...)
MtBestMatchSet(r) ==
    mt_result' = [id |-> <<>>, match |-> r.match, score |-> r.score]

MtBestMatch ==
    /\ mt_pc = "enrich_narrators" /\ mt_calls < MaxCalls
    /\ \E query \in MtQueries, threshold \in ThresholdPool, use_fuzzy \in BOOLEAN :
          /\ MtBestMatchSet(find_best_match(query, mt_rawi_index, DictKeys(mt_rawi_index),
                                            threshold, use_fuzzy))
          /\ MtCalled("find_best_match", query, threshold, use_fuzzy)
    /\ UNCHANGED mt_cache

\* narrator_id = find_narrator_id(name, index, cache) of fix_chains_from_csv
MtCsvSet(r) ==
    /\ mt_result' = [id |-> r.id, match |-> <<>>, score |-> FloatZero]
    /\ mt_cache' = r.cache

MtFindCsv ==
    /\ mt_pc = "fix_chains_from_csv" /\ mt_calls < MaxCalls
    /\ \E query \in CsvQueries :
          \E order \in Orders(csv_words_of(normalize_arabic_cmp(query))) :
             /\ MtCsvSet(find_narrator_id_csv(query, mt_csv_index, mt_cache, order))
             /\ MtCalled("find_narrator_id", query, <<3, 5>>, FALSE)

\* nid = find_narrator_id(narrator.name_ar, narrator_index) of fix_chains_gemini
MtFindGemini ==
    /\ mt_pc = "fix_chains_gemini" /\ mt_calls < MaxCalls
    /\ \E query \in MtQueries :
          /\ mt_result' = [id |-> find_narrator_id_gemini(query, mt_narrator_index),
                           match |-> <<>>, score |-> FloatZero]
          /\ MtCalled("find_narrator_id", query, <<3, 5>>, FALSE)
    /\ UNCHANGED mt_cache

\* nid = find_narrator_id(name, narrator_index, normalized_aliases) of
\* fix_skipped_chains
MtFindSkipped ==
    /\ mt_pc = "fix_skipped_chains" /\ mt_calls < MaxCalls
    /\ \E query \in MtQueries :
          /\ mt_result' = [id |-> find_narrator_id_skipped(query, mt_narrator_index,
                                                           mt_aliases),
                           match |-> <<>>, score |-> FloatZero]
          /\ MtCalled("find_narrator_id", query, <<3, 5>>, FALSE)
    /\ UNCHANGED mt_cache

(***************************************************************************)
(* The three correction programs                                           *)
(***************************************************************************)
\* bound on the length of mismatched_chains.json and of gemini_skipped.json
MaxMismatches == 2

\* "if completed % 50 == 0" of fix_chains_gemini.main
SaveEvery == 50

\* chains.json before any correction
InitialChains == << <<ChainId(0), <<0>>>> >>

\* chains.json as the Chain Builder leaves it for two records
BuiltChains == << <<ChainId(0), <<0>>>>, <<ChainId(1), <<0, 1>>>> >>

ChainsFilePool == {InitialChains, BuiltChains}

NarratorsPool == { <<Name_Hisham, Name_Urwa, Name_Aisha>> }

\* csv_chain fields: every name known, and one name unknown
CsvChainPool == { <<Name_Hisham, Name_Urwa>>, <<Name_Urwa, Name_AnasFull>> }

\* the records of mismatched_chains.json, the "source" of each being its book
MismatchPool ==
    { [hadith_id |-> h, chain_id |-> ChainId(c), csv_chain |-> names,
       source |-> HADITH_FILES[1]] :
        h \in 1..MaxMismatches, c \in {0, 1}, names \in CsvChainPool }

\* the mismatch queues: the record at position h has hadith_id h, and two
\* records may name the same chain
MismatchQueues ==
    UNION { {q \in [1..n -> MismatchPool] : \A h \in 1..n : q[h].hadith_id = h} :
            n \in 1..MaxMismatches }

\* the queues handed to fix_chains_from_csv: the csv_chain fields also hold a
\* second list of known names
CsvMismatchQueues ==
    UNION { {q \in [1..n -> [hadith_id : 1..MaxMismatches, chain_id : {ChainId(0), ChainId(1)},
                             csv_chain : CsvChainPool \cup {<<Name_Urwa, Name_Aisha>>},
                             source : {HADITH_FILES[1]}]] :
                \A h \in 1..n : q[h].hadith_id = h} :
            n \in 1..MaxMismatches }

\* answers of the environment: no hadith text, an error, an empty chain, a
\* chain of known names, a chain with an unknown name
ReplyPool ==
    { [kind |-> "no_text", names |-> <<>>, confidence |-> "high"],
      [kind |-> "error", names |-> <<>>, confidence |-> "high"],
      [kind |-> "chain", names |-> <<>>, confidence |-> "high"],
      [kind |-> "chain", names |-> <<Name_Urwa, Name_Aisha>>, confidence |-> "high"],
      [kind |-> "chain", names |-> <<Name_AnasFull, Name_Urwa>>, confidence |-> "high"] }

\* a queue long enough for fix_chains_gemini to reach its "save every 50"
\* and go on: every answer is a chain of known names
LongQueue ==
    [h \in 1..(SaveEvery + 1) |->
        [hadith_id |-> h, chain_id |-> ChainId(h % 2),
         csv_chain |-> <<Name_Hisham, Name_Urwa>>, source |-> HADITH_FILES[1]]]

LongReplies ==
    [h \in 1..(SaveEvery + 1) |->
        [kind |-> "chain", names |-> <<Name_Urwa, Name_Aisha>>, confidence |-> "high"]]

\* entries of a gemini_skipped.json handed to fix_skipped_chains: without a
\* gemini_chain, with one of known names, with one holding an unknown name,
\* with one holding an empty "ar" field
SkippedPool ==
    { [hadith_id |-> h, chain_id |-> ChainId(c), reason |-> <<"Empty result">>,
       confidence |-> <<>>, has_gemini_chain |-> g[1], gemini_chain |-> g[2]] :
        h \in 1..MaxMismatches, c \in {0, 1},
        g \in { <<FALSE, <<>>>>, <<TRUE, <<Name_Urwa, Name_Aisha>>>>,
                <<TRUE, <<Name_Hisham, Name_AnasFull>>>>, <<TRUE, <<<<>>, Name_Urwa>>>> } }

SkippedFiles ==
    UNION { {q \in [1..n -> SkippedPool] : \A h \in 1..n : q[h].hadith_id = h} :
            n \in 1..MaxMismatches }

\* "if total_processed % 100 == 0" of fix_chain_data.main
DataSaveEvery == 100

\* English names of narrators.json and of the oracle's answers

EnglishNames ==
    << <<Name_Hisham, EnName_Hisham>>, <<Name_Urwa, EnName_Urwa>>,
       <<Name_Aisha, EnName_Aisha>> >>

\* narrators.json as fix_chain_data reads it: nameAr and nameEn of each entry
DataNarrators(narrators) ==
    [k \in 1..Len(narrators) |->
        [nameAr |-> narrators[k],
         nameEn |-> IF DictHas(EnglishNames, narrators[k])
                    THEN DictGet(EnglishNames, narrators[k]) ELSE <<>>]]

\* answers of the oracle to fix_chain_data: none, an empty chain, the list
\* the chain already holds, known names, a name known by its English form
\* only, and a chain with an unknown name
DataReplyPool ==
    { [kind |-> "none", narrators |-> <<>>],
      [kind |-> "chain", narrators |-> <<>>],
      [kind |-> "chain", narrators |-> <<[name_ar |-> Name_Hisham, name_en |-> EnName_Hisham]>>],
      [kind |-> "chain", narrators |-> <<[name_ar |-> Name_Urwa, name_en |-> EnName_Urwa],
                                         [name_ar |-> Name_Aisha, name_en |-> EnName_Aisha]>>],
      [kind |-> "chain", narrators |-> <<[name_ar |-> Name_AlZubayr, name_en |-> EnName_Urwa]>>],
      [kind |-> "chain", narrators |-> <<[name_ar |-> Name_Urwa, name_en |-> EnName_Urwa],
                                         [name_ar |-> Name_AnasFull, name_en |-> EnName_Anas]>>] }

NoProgress == [exists |-> FALSE, processed |-> {}]

NoStep == StepRecord("none", ChainId(0), <<>>, <<>>, FALSE, <<>>)

CorOff ==
    /\ cor_prog = "off" /\ cor_pc = "off" /\ cor_mismatches = <<>> /\ cor_narrators = <<>>
    /\ cor_aliases = <<>> /\ cor_replies = <<>> /\ cor_file_chains = <<>>
    /\ cor_file_progress = NoProgress /\ cor_file_skipped = <<>>
    /\ cor_file_unfixable = <<>> /\ cor_file_still_unfixable = <<>>
    /\ cor_mem = NoMem /\ cor_last = NoStep /\ cor_cut = {}

\* the inputs of one of the four programs; the files a run writes do not
\* exist yet, except the skipped list handed to fix_skipped_chains
CorInputs(prog, mismatches, replies, skipped, aliases) ==
    /\ cor_prog = prog /\ cor_mismatches = mismatches /\ cor_replies = replies
    /\ cor_file_skipped = skipped /\ cor_aliases = aliases

CorInit ==
    /\ cor_pc = "idle" /\ cor_mem = NoMem /\ cor_last = NoStep /\ cor_cut = {}
    /\ cor_file_chains \in ChainsFilePool /\ cor_file_progress = NoProgress
    /\ cor_file_unfixable = <<>> /\ cor_file_still_unfixable = <<>>
    /\ cor_narrators \in NarratorsPool
    /\ \E mismatches \in MismatchQueues :
          \/ \E queue \in CsvMismatchQueues :
                CorInputs("fix_chains_from_csv", queue, <<>>, <<>>, <<>>)
          \* fix_chains_gemini hands csv_chain to build_prompt only
          \/ /\ \A h \in 1..Len(mismatches) :
                   mismatches[h].csv_chain = <<Name_Urwa, Name_AnasFull>>
             /\ \E replies \in [1..Len(mismatches) -> ReplyPool] :
                   CorInputs("fix_chains_gemini", mismatches, replies, <<>>, <<>>)
          \/ CorInputs("fix_chains_gemini", LongQueue, LongReplies, <<>>, <<>>)
          \* the hadiths of the book files handed to fix_chain_data, book
          \* after book: the first in_first of them are of the first book
          \/ /\ \A h \in 1..Len(mismatches) :
                   mismatches[h].csv_chain = <<Name_Hisham, Name_Urwa>>
             /\ \E replies \in [1..Len(mismatches) -> DataReplyPool],
                   in_first \in 0..Len(mismatches) :
                   CorInputs("fix_chain_data",
                             [h \in 1..Len(mismatches) |->
                                 [mismatches[h] EXCEPT
                                     !.source = IF h <= in_first THEN HADITH_FILES[1]
                                                ELSE HADITH_FILES[2]]],
                             replies, <<>>, <<>>)
          \* fix_skipped_chains only looks the records up by chain id: they
          \* are listed by chain id, and two may still name the same chain
          \/ /\ \A h \in 1..(Len(mismatches) - 1) :
                   mismatches[h].chain_id = ChainId(1) =>
                       mismatches[h + 1].chain_id = ChainId(1)
             /\ \E skipped \in SkippedFiles, aliases \in AliasFilePool :
                   CorInputs("fix_skipped_chains", mismatches, <<>>, skipped, aliases)

corInputs == <<cor_prog, cor_mismatches, cor_narrators, cor_aliases, cor_replies>>

\* the orders in which the word sets of the names of one chain are iterated
OrdersFor(names) ==
    {orders \in [1..Len(names) ->
                    UNION {Orders(csv_words_of(normalize_arabic_cmp(names[k]))) :
                             k \in 1..Len(names)}] :
        \A k \in 1..Len(names) :
            orders[k] \in Orders(csv_words_of(normalize_arabic_cmp(names[k])))}

\* fix_chains_from_csv.main up to its loop
CorCsvStart ==
    /\ cor_prog = "fix_chains_from_csv" /\ cor_pc = "idle"
    /\ cor_pc' = "loop"
    /\ cor_mem' = [NoMem EXCEPT !.chains = cor_file_chains, !.queue = cor_mismatches]
    /\ cor_last' = NoStep
    /\ UNCHANGED <<corInputs, cor_cut, cor_file_chains, cor_file_progress, cor_file_skipped,
                   cor_file_unfixable, cor_file_still_unfixable, corFrame>>

CorSetStep(r) ==
    /\ cor_mem' = r.mem
    /\ cor_last' = r.last

CorCsvStep ==
    /\ cor_prog = "fix_chains_from_csv" /\ cor_pc = "loop"
    /\ cor_mem.i < Len(cor_mem.queue)
    /\ \E orders \in OrdersFor(cor_mem.queue[cor_mem.i + 1].csv_chain) :
          CorSetStep(csv_step(cor_mem, cor_mem.queue[cor_mem.i + 1],
                              build_narrator_index_csv(cor_narrators), orders))
    /\ UNCHANGED <<corInputs, cor_cut, cor_pc, cor_file_chains, cor_file_progress, cor_file_skipped,
                   cor_file_unfixable, cor_file_still_unfixable, corFrame>>

\* the two save_json calls that end fix_chains_from_csv.main
CorCsvFinish ==
    /\ cor_prog = "fix_chains_from_csv" /\ cor_pc = "loop"
    /\ cor_mem.i = Len(cor_mem.queue)
    /\ cor_pc' = "idle"
    /\ cor_file_chains' = cor_mem.chains
    /\ cor_file_unfixable' = cor_mem.unfixable
    /\ cor_mem' = NoMem
    /\ UNCHANGED <<corInputs, cor_cut, cor_file_progress, cor_file_skipped,
                   cor_file_still_unfixable, cor_last, corFrame>>

\* fix_chains_gemini.main up to its loop: limit is the command-line argument,
\* 0 when it is absent
GeminiLoaded(processed_ids, limit) ==
    cor_mem' = [NoMem EXCEPT !.chains = cor_file_chains,
                             !.processed_ids = processed_ids,
                             !.skipped_list = cor_file_skipped,
                             !.queue = to_process_of(cor_mismatches, processed_ids, limit)]

\* a file left short by a stopped save_json is no JSON text: load_json
\* raises json.JSONDecodeError on it and main ends before its loop
CorGeminiStart ==
    /\ cor_prog = "fix_chains_gemini" /\ cor_pc = "idle"
    /\ IF cor_cut = {}
       THEN /\ cor_pc' = "loop"
            /\ \E limit \in {0, 1} :
                  GeminiLoaded(cor_file_progress.processed
                                 \cup {cor_file_skipped[k].chain_id :
                                         k \in 1..Len(cor_file_skipped)},
                               limit)
            /\ cor_last' = NoStep
       ELSE UNCHANGED <<cor_pc, cor_mem, cor_last>>
    /\ UNCHANGED <<corInputs, cor_cut, cor_file_chains, cor_file_progress, cor_file_skipped,
                   cor_file_unfixable, cor_file_still_unfixable, corFrame>>

\* the three save_json calls of fix_chains_gemini.main
GeminiSave(mem) ==
    /\ cor_file_chains' = mem.chains
    /\ cor_file_progress' = [exists |-> TRUE, processed |-> mem.processed_ids]
    /\ cor_file_skipped' = mem.skipped_list

\* one iteration, with its "save every 50" when the iteration reaches it
GeminiStepped(r) ==
    /\ CorSetStep(r)
    /\ IF r.checked /\ r.mem.i % SaveEvery = 0
       THEN GeminiSave(r.mem)
       ELSE UNCHANGED <<cor_file_chains, cor_file_progress, cor_file_skipped>>

CorGeminiStep ==
    /\ cor_prog = "fix_chains_gemini" /\ cor_pc = "loop"
    /\ cor_mem.i < Len(cor_mem.queue)
    /\ GeminiStepped(gemini_step(cor_mem, cor_mem.queue[cor_mem.i + 1],
                                 cor_replies[cor_mem.queue[cor_mem.i + 1].hadith_id],
                                 build_narrator_index(cor_narrators)))
    /\ UNCHANGED <<corInputs, cor_cut, cor_pc, cor_file_unfixable, cor_file_still_unfixable,
                   corFrame>>

\* the final save of fix_chains_gemini.main
CorGeminiFinish ==
    /\ cor_prog = "fix_chains_gemini" /\ cor_pc = "loop"
    /\ cor_mem.i = Len(cor_mem.queue)
    /\ cor_pc' = "idle"
    /\ GeminiSave(cor_mem)
    /\ cor_mem' = NoMem
    /\ UNCHANGED <<corInputs, cor_cut, cor_file_unfixable, cor_file_still_unfixable, cor_last,
                   corFrame>>

\* the run is stopped inside its loop: what it has not saved is lost
CorGeminiInterrupt ==
    /\ cor_prog = "fix_chains_gemini" /\ cor_pc = "loop"
    /\ cor_mem.i < Len(cor_mem.queue)
    /\ cor_pc' = "idle"
    /\ cor_mem' = NoMem
    /\ UNCHANGED <<corInputs, cor_cut, cor_file_chains, cor_file_progress, cor_file_skipped,
                   cor_file_unfixable, cor_file_still_unfixable, cor_last, corFrame>>

\* the files of the three save_json calls, in the order of the calls
GeminiFiles == <<"chains", "progress", "skipped">>

\* the three save_json calls cut short: writes tells how many of them were
\* completed, the chain table first, the processed ids second, and inside
\* whether the stop fell inside the next one. save_json opens its file with
\* "w", which empties it, and json.dump writes the text piece by piece: the
\* file then holds the start of the text, in the order of the dictionary or
\* list, or of list(processed_ids), which is any order
GeminiSavePartial(mem, writes, inside) ==
    /\ cor_file_chains' \in
          IF writes >= 1 THEN {mem.chains}
          ELSE IF inside THEN Prefixes(mem.chains) ELSE {cor_file_chains}
    /\ cor_file_progress' \in
          IF writes >= 2 THEN {[exists |-> TRUE, processed |-> mem.processed_ids]}
          ELSE IF writes = 1 /\ inside
               THEN {[exists |-> TRUE, processed |-> ids] : ids \in SUBSET mem.processed_ids}
               ELSE {cor_file_progress}
    /\ cor_file_skipped' \in
          IF writes = 2 /\ inside THEN Prefixes(mem.skipped_list) ELSE {cor_file_skipped}
    /\ cor_cut' = IF inside THEN cor_cut \cup {GeminiFiles[writes + 1]} ELSE cor_cut

\* the run is stopped in the final save: before it, between two of its
\* save_json calls or inside one of them
CorGeminiFinishInterrupt ==
    /\ cor_prog = "fix_chains_gemini" /\ cor_pc = "loop"
    /\ cor_mem.i = Len(cor_mem.queue)
    /\ cor_pc' = "idle"
    /\ \E writes \in 0..2, inside \in BOOLEAN : GeminiSavePartial(cor_mem, writes, inside)
    /\ cor_mem' = NoMem
    /\ UNCHANGED <<corInputs, cor_file_unfixable, cor_file_still_unfixable, cor_last,
                   corFrame>>

\* the run is stopped in the "save every 50" of an iteration: before it,
\* between two of its save_json calls or inside one of them
CorGeminiStepInterrupt ==
    /\ cor_prog = "fix_chains_gemini" /\ cor_pc = "loop"
    /\ cor_mem.i < Len(cor_mem.queue)
    /\ LET r == gemini_step(cor_mem, cor_mem.queue[cor_mem.i + 1],
                            cor_replies[cor_mem.queue[cor_mem.i + 1].hadith_id],
                            build_narrator_index(cor_narrators))
       IN  /\ r.checked /\ r.mem.i % SaveEvery = 0
           /\ cor_last' = r.last
           /\ \E writes \in 0..2, inside \in BOOLEAN :
                 GeminiSavePartial(r.mem, writes, inside)
    /\ cor_pc' = "idle"
    /\ cor_mem' = NoMem
    /\ UNCHANGED <<corInputs, cor_file_unfixable, cor_file_still_unfixable, corFrame>>

\* fix_skipped_chains.main up to its loop
CorSkippedStart ==
    /\ cor_prog = "fix_skipped_chains" /\ cor_pc = "idle"
    /\ cor_pc' = "loop"
    /\ cor_mem' = [NoMem EXCEPT !.chains = cor_file_chains, !.queue = cor_file_skipped]
    /\ cor_last' = NoStep
    /\ UNCHANGED <<corInputs, cor_cut, cor_file_chains, cor_file_progress, cor_file_skipped,
                   cor_file_unfixable, cor_file_still_unfixable, corFrame>>

CorSkippedStep ==
    /\ cor_prog = "fix_skipped_chains" /\ cor_pc = "loop"
    /\ cor_mem.i < Len(cor_mem.queue)
    /\ CorSetStep(skipped_step(cor_mem, cor_mem.queue[cor_mem.i + 1],
                               mismatch_by_chain_of(cor_mismatches),
                               build_narrator_index(cor_narrators),
                               normalized_aliases_of(cor_aliases)))
    /\ UNCHANGED <<corInputs, cor_cut, cor_pc, cor_file_chains, cor_file_progress, cor_file_skipped,
                   cor_file_unfixable, cor_file_still_unfixable, corFrame>>

\* the two save_json calls that end fix_skipped_chains.main
CorSkippedFinish ==
    /\ cor_prog = "fix_skipped_chains" /\ cor_pc = "loop"
    /\ cor_mem.i = Len(cor_mem.queue)
    /\ cor_pc' = "idle"
    /\ cor_file_chains' = cor_mem.chains
    /\ cor_file_still_unfixable' = cor_mem.unfixable
    /\ cor_mem' = NoMem
    /\ UNCHANGED <<corInputs, cor_cut, cor_file_progress, cor_file_skipped, cor_file_unfixable,
                   cor_last, corFrame>>

\* fix_chain_data.main up to its loop; the limit of the command line, 0 when
\* none is given, is a number of hadiths per book
CorDataStart ==
    /\ cor_prog = "fix_chain_data" /\ cor_pc = "idle"
    /\ cor_pc' = "loop"
    /\ \E limit \in {0, 1} :
          cor_mem' = [NoMem EXCEPT !.chains = cor_file_chains,
                                   !.queue = DataQueueFrom(cor_mismatches, 1, limit),
                                   !.cache = DataCacheFrom(DataNarrators(cor_narrators),
                                                           1, <<>>)]
    /\ cor_last' = NoStep
    /\ UNCHANGED <<corInputs, cor_cut, cor_file_chains, cor_file_progress, cor_file_skipped,
                   cor_file_unfixable, cor_file_still_unfixable, corFrame>>

\* the two save_json calls of fix_chain_data.main, cor_file_skipped standing
\* for the SKIPPED_FILE of the running program
DataSave(mem) ==
    /\ cor_file_chains' = mem.chains
    /\ cor_file_skipped' = mem.skipped_list

\* one call of process_hadith, with the save every 100 when it is reached
DataStepped(r) ==
    /\ CorSetStep(r)
    /\ IF r.mem.i % DataSaveEvery = 0
       THEN DataSave(r.mem)
       ELSE UNCHANGED <<cor_file_chains, cor_file_skipped>>

CorDataStep ==
    /\ cor_prog = "fix_chain_data" /\ cor_pc = "loop"
    /\ cor_mem.i < Len(cor_mem.queue)
    /\ DataStepped(data_step(cor_mem, cor_mem.queue[cor_mem.i + 1],
                             cor_replies[cor_mem.queue[cor_mem.i + 1].hadith_id],
                             DataNarrators(cor_narrators)))
    /\ UNCHANGED <<corInputs, cor_cut, cor_pc, cor_file_progress, cor_file_unfixable,
                   cor_file_still_unfixable, corFrame>>

\* the two save_json calls that end fix_chain_data.main
CorDataFinish ==
    /\ cor_prog = "fix_chain_data" /\ cor_pc = "loop"
    /\ cor_mem.i = Len(cor_mem.queue)
    /\ cor_pc' = "idle"
    /\ DataSave(cor_mem)
    /\ cor_mem' = NoMem
    /\ UNCHANGED <<corInputs, cor_cut, cor_file_progress, cor_file_unfixable,
                   cor_file_still_unfixable, cor_last, corFrame>>

(***************************************************************************)
(* enrich_narrators.main                                                   *)
(***************************************************************************)
\* narrators.json: names with and without a rawi, a father term, and a name
\* that only the manual file knows
EnNarratorPool == {Name_Hisham, Name_Urwa, Name_Aisha, Term_Abihi}

\* unmatched_narrators_manual.json
ManualFilePool ==
    { <<>>,
      << [nameOriginal |-> Name_Aisha, nameAr |-> Name_Aisha, same_as |-> FALSE] >>,
      << [nameOriginal |-> Name_Hisham, nameAr |-> Name_HishamLong, same_as |-> FALSE],
         [nameOriginal |-> Name_Urwa, nameAr |-> Name_UrwaFull, same_as |-> TRUE] >> }

\* kinship_narrators_enriched.json
KinshipFilePool ==
    { <<>>,
      << [id |-> 1, kinshipType |-> "father", resolvedName |-> Name_Urwa] >> }

NoStats ==
    [total |-> 0, matchedCsv |-> 0, matchedManual |-> 0, matchedKinship |-> 0,
     matched |-> 0, filtered |-> 0, unmatched |-> 0]

EnOff ==
    /\ en_pc = "off" /\ en_narrators = <<>> /\ en_rawi_index = <<>>
    /\ en_manual_index = <<>> /\ en_kinship_index = <<>> /\ en_i = 0
    /\ en_st = NoEnriched /\ en_stats = NoStats

\* main up to the call of enrich_narrators: the four loads and the index
EnInit ==
    /\ en_pc = "loop"
    /\ en_narrators \in SeqsUpTo(EnNarratorPool, 0, MaxIndexed)
    /\ \E rawi_names \in SeqsUpTo(RawiNamePool, 0, MaxIndexed) :
          en_rawi_index = build_rawi_index(rawi_names)
    /\ \E manual \in ManualFilePool : en_manual_index = load_manual_data(manual)
    /\ \E kinship \in KinshipFilePool : en_kinship_index = load_kinship_data(kinship)
    /\ en_i = 0 /\ en_st = NoEnriched /\ en_stats = NoStats

enInputs == <<en_narrators, en_rawi_index, en_manual_index, en_kinship_index>>

\* one iteration of the loop of enrich_narrators, called with threshold 0.6
EnrichStep ==
    /\ en_pc = "loop" /\ en_i < Len(en_narrators)
    /\ en_st' = enrich_step(en_st, en_i, en_narrators[en_i + 1], en_rawi_index,
                            en_manual_index, en_kinship_index, <<3, 5>>)
    /\ en_i' = en_i + 1
    /\ UNCHANGED <<en_pc, enInputs, en_stats, enFrame>>

\* the statistics and save_results; with an empty narrators list the match
\* rate divides by zero and nothing is saved
EnrichFinish ==
    /\ en_pc = "loop" /\ en_i = Len(en_narrators)
    /\ IF Len(en_narrators) = 0
       THEN en_pc' = "error" /\ en_stats' = en_stats
       ELSE en_pc' = "done" /\ en_stats' = enrich_stats(en_st, Len(en_narrators))
    /\ UNCHANGED <<enInputs, en_i, en_st, enFrame>>

(***************************************************************************)
(* translate_seera.main                                                    *)
(***************************************************************************)
MaxEvents == 2

MaxRuns == 2

\* the three text columns of a row of the events CSV: an empty cell, a cell
\* of blanks, and texts
EventTexts ==
    { [title |-> <<"a">>, details |-> <<>>, location_name |-> <<" ">>],
      [title |-> <<"a">>, details |-> <<"b">>, location_name |-> <<>>],
      [title |-> <<" ">>, details |-> <<>>, location_name |-> <<"b">>] }

NoTexts == [title |-> <<>>, details |-> <<>>, location_name |-> <<>>]

EventRow(event_id, texts) ==
    [event_id |-> event_id, title |-> texts.title, details |-> texts.details,
     location_name |-> texts.location_name]

\* events CSVs: up to MaxEvents rows with texts, two rows with the same
\* event_id, and a file that reaches the periodic checkpoint: BATCH_SIZE
\* rows, of which only the last has text
EventFiles ==
    UNION { {[k \in 1..n |-> EventRow(k, texts[k])] : texts \in [1..n -> EventTexts]} :
            n \in 1..MaxEvents }
    \cup { [k \in 1..2 |-> EventRow(1, texts)] : texts \in EventTexts }
    \cup { [k \in 1..BATCH_SIZE |->
              EventRow(k, IF k = BATCH_SIZE THEN texts ELSE NoTexts)] :
           texts \in EventTexts }

\* the progress file a first run finds: none, or one left by an earlier run
ProgressFiles ==
    { NoTrProgress,
      [processed_ids |-> <<1>>,
       translations |-> << <<1, << <<"title", <<"t">>>>, <<"details", <<>>>>,
                                   <<"location_name", <<" ">>>> >> >> >>] }

\* what a call of generate_content does: an answer with text, an answer of
\* blanks, or an exception
OracleReplies ==
    { [kind |-> "text", text |-> <<"t">>], [kind |-> "text", text |-> <<" ">>],
      [kind |-> "error", text |-> <<>>] }

TrOff ==
    /\ tr_pc = "off" /\ tr_events = <<>> /\ tr_file_progress = NoTrProgress
    /\ tr_file_output = <<>> /\ tr_m = TrLocals(NoTrProgress) /\ tr_calls = <<>>
    /\ tr_runs = 0 /\ tr_cut = FALSE

TrInit ==
    /\ tr_pc = "idle" /\ tr_events \in EventFiles
    /\ tr_file_progress \in ProgressFiles
    /\ tr_file_output = <<>> /\ tr_m = TrLocals(NoTrProgress) /\ tr_calls = <<>>
    /\ tr_runs = 0 /\ tr_cut = FALSE

\* main is running: it waits for the oracle, sleeps after a column, is about
\* to write the periodic checkpoint, or has left its loop
TrRunning == tr_pc \in {"call", "sleep", "save", "end"}

TrSet(s) == tr_m' = s.m /\ tr_pc' = s.at

\* main from its start to the first place where it waits or writes: the CSV
\* and the progress file are loaded and the loop entered. On a progress file left
\* short by a stopped save_progress json.load raises json.JSONDecodeError
\* and main ends there
TranslateStart ==
    /\ tr_pc = "idle" /\ tr_runs < MaxRuns
    /\ tr_runs' = tr_runs + 1 /\ tr_calls' = <<>>
    /\ IF tr_cut THEN UNCHANGED <<tr_pc, tr_m>>
       ELSE TrSet(TrRun(TrLocals(tr_file_progress), tr_events))
    /\ UNCHANGED <<tr_events, tr_file_progress, tr_file_output, tr_cut, trFrame>>

\* the oracle answers the call translate_text is waiting on: the column is
\* settled and main reaches its time.sleep, or translate_text tries again
TranslateReply ==
    /\ tr_pc = "call"
    /\ \E reply \in OracleReplies :
          /\ TrSet(translate_reply(tr_m, tr_events, reply))
          /\ tr_calls' =
                IF reply.kind = "text" \/ tr_m.attempt + 1 >= MAX_RETRIES
                THEN Append(tr_calls,
                            [event_id |-> tr_events[tr_m.idx + 1].event_id,
                             col |-> TRANSLATE_COLUMNS[tr_m.col],
                             attempts |-> tr_m.attempt + 1, reply |-> reply])
                ELSE tr_calls
    /\ UNCHANGED <<tr_events, tr_file_progress, tr_file_output, tr_runs, tr_cut, trFrame>>

\* time.sleep(REQUEST_DELAY) of line 115 returns and main runs on as far as
\* the next call, sleep or save: the other columns of the row, lines 119-120
\* that record the row, the rows after it
TranslateSleep ==
    /\ tr_pc = "sleep"
    /\ TrSet(TrRun(tr_m, tr_events))
    /\ UNCHANGED <<tr_events, tr_file_progress, tr_file_output, tr_calls, tr_runs,
                   tr_cut, trFrame>>

\* the periodic save_progress of line 127, written whole, and main runs on
TranslateCheckpoint ==
    /\ tr_pc = "save"
    /\ tr_file_progress' = SavedProgress(tr_m)
    /\ TrSet(TrRun(tr_m, tr_events))
    /\ UNCHANGED <<tr_events, tr_file_output, tr_calls, tr_runs, tr_cut, trFrame>>

\* after the loop: the final save of the progress and the output CSV
TranslateFinish ==
    /\ tr_pc = "end"
    /\ tr_file_progress' = SavedProgress(tr_m)
    /\ tr_file_output' = output_rows(tr_events, tr_m.translations)
    /\ tr_pc' = "idle"
    /\ UNCHANGED <<tr_events, tr_m, tr_calls, tr_runs, tr_cut, trFrame>>

\* the run is stopped where it stands, and only what the files hold is kept:
\* in a call or a sleep, or before a save_progress, the files are as they
\* were; inside a save_progress the progress file is left short; after the
\* final save the output CSV is unwritten or holds its first rows
TranslateInterrupt ==
    /\ TrRunning
    /\ tr_pc' = "idle"
    /\ \/ UNCHANGED <<tr_file_progress, tr_file_output, tr_cut>>
       \/ /\ tr_pc \in {"save", "end"}
          /\ tr_file_progress' \in CutProgress(SavedProgress(tr_m))
          /\ tr_cut' = TRUE
          /\ UNCHANGED tr_file_output
       \/ /\ tr_pc = "end"
          /\ tr_file_progress' = SavedProgress(tr_m)
          /\ tr_file_output' \in {tr_file_output}
                                   \cup Prefixes(output_rows(tr_events, tr_m.translations))
          /\ UNCHANGED tr_cut
    /\ UNCHANGED <<tr_events, tr_m, tr_calls, tr_runs, trFrame>>

(***************************************************************************)
(* The loops of build_rawi_index and load_rawis_data over all_rawis.csv    *)
(***************************************************************************)
\* a name followed by an honorific
Name_AnasRadi ==
    <<">", "n", "s", " ", "r", "D", "y", " ", "A", "l", "l", "h", " ", "E", "n", "h">>

\* Arabic parts of the name fields of rows: two spellings of one name, a
\* short name that is also the first word of a longer one, and a name with
\* and without an honorific
IxNamePool == RawiNamePool \cup {Name_AbuHurayra2, Name_Urwa, Name_Anas, Name_AnasRadi}

IxOff == ix_prog = "off" /\ ix_names = <<>> /\ ix_i = 0 /\ ix_index = <<>>

IxInit ==
    /\ ix_prog \in {"build_rawi_index", "load_rawis_data"}
    /\ ix_names \in SeqsUpTo(IxNamePool, 1, MaxIndexed)
    /\ ix_i = 0 /\ ix_index = <<>>

\* one iteration of "for _, row in df.iterrows()" of build_rawi_index
IndexRowStep ==
    /\ ix_prog = "build_rawi_index" /\ ix_i < Len(ix_names)
    /\ ix_index' = IndexRow(ix_index, ix_names[ix_i + 1], ix_i + 1)
    /\ ix_i' = ix_i + 1
    /\ UNCHANGED <<ix_prog, ix_names, ixFrame>>

\* one iteration of the loop of load_rawis_data
LoadRawiStep ==
    /\ ix_prog = "load_rawis_data" /\ ix_i < Len(ix_names)
    /\ ix_index' = LoadRawiRow(ix_index, ix_names[ix_i + 1], ix_i + 1)
    /\ ix_i' = ix_i + 1
    /\ UNCHANGED <<ix_prog, ix_names, ixFrame>>

(***************************************************************************)
(* Specifications                                                          *)
(***************************************************************************)
NormNext == NormalizeOnce \/ NormalizeAgain

InitNormalizer == NormInit /\ DbOff /\ BldOff /\ KinOff /\ ValOff /\ MtOff /\ CorOff /\ EnOff /\ TrOff /\ IxOff

SpecNormalizer == InitNormalizer /\ [][NormNext]_vars

DbNext == GroupStep \/ CreateDatabase

ResearchNext ==
    GroupStep \/ CreateDatabase \/ MergeLoad \/ MergeNoResearch \/ MergeStep \/ MergeSave

InitClusterer == DbInit /\ NormOff /\ BldOff /\ KinOff /\ ValOff /\ MtOff /\ CorOff /\ EnOff /\ TrOff /\ IxOff

SpecClusterer == InitClusterer /\ [][DbNext]_vars

\* build_narrator_database.main followed by merge_narrator_research.main
InitResearch == DbInitResearch /\ NormOff /\ BldOff /\ KinOff /\ ValOff /\ MtOff /\ CorOff /\ EnOff /\ TrOff /\ IxOff

SpecResearch == InitResearch /\ [][ResearchNext]_vars

ChainsNext ==
    BuildRow \/ SaveNormalizedFiles \/ CopyToJsonDir \/ KinLoad \/ KinStep \/ KinDone

InitChains == BldInit /\ KinInit /\ NormOff /\ DbOff /\ ValOff /\ MtOff /\ CorOff /\ EnOff /\ TrOff /\ IxOff

SpecChains == InitChains /\ [][ChainsNext]_vars

ValNext == ValCompare \/ ValCount

InitReconciler == ValInit /\ NormOff /\ DbOff /\ BldOff /\ KinOff /\ MtOff /\ CorOff /\ EnOff /\ TrOff /\ IxOff

SpecReconciler == InitReconciler /\ [][ValNext]_vars

MtNext == MtBestMatch \/ MtFindCsv \/ MtFindGemini \/ MtFindSkipped

InitMatcher == MtInit /\ NormOff /\ DbOff /\ BldOff /\ KinOff /\ ValOff /\ CorOff /\ EnOff /\ TrOff /\ IxOff

SpecMatcher == InitMatcher /\ [][MtNext]_vars

CorNext ==
    \/ CorCsvStart \/ CorCsvStep \/ CorCsvFinish
    \/ CorGeminiStart \/ CorGeminiStep \/ CorGeminiFinish \/ CorGeminiInterrupt
    \/ CorGeminiFinishInterrupt \/ CorGeminiStepInterrupt
    \/ CorSkippedStart \/ CorSkippedStep \/ CorSkippedFinish
    \/ CorDataStart \/ CorDataStep \/ CorDataFinish

InitCorrections == CorInit /\ NormOff /\ DbOff /\ BldOff /\ KinOff /\ ValOff /\ MtOff /\ EnOff /\ TrOff /\ IxOff

SpecCorrections == InitCorrections /\ [][CorNext]_vars

EnNext == EnrichStep \/ EnrichFinish

InitEnricher ==
    EnInit /\ NormOff /\ DbOff /\ BldOff /\ KinOff /\ ValOff /\ MtOff /\ CorOff
    /\ TrOff /\ IxOff

SpecEnricher == InitEnricher /\ [][EnNext]_vars

TrNext ==
    \/ TranslateStart \/ TranslateReply \/ TranslateSleep \/ TranslateCheckpoint
    \/ TranslateFinish \/ TranslateInterrupt

InitTranslator ==
    TrInit /\ NormOff /\ DbOff /\ BldOff /\ KinOff /\ ValOff /\ MtOff /\ CorOff
    /\ EnOff /\ IxOff

SpecTranslator == InitTranslator /\ [][TrNext]_vars

IxNext == IndexRowStep \/ LoadRawiStep

InitIndexers ==
    IxInit /\ NormOff /\ DbOff /\ BldOff /\ KinOff /\ ValOff /\ MtOff /\ CorOff
    /\ EnOff /\ TrOff

SpecIndexers == InitIndexers /\ [][IxNext]_vars

\* the two programs that resume from a checkpoint: fix_chains_gemini and
\* translate_seera
ResumableNext ==
    \/ CorGeminiStart \/ CorGeminiStep \/ CorGeminiFinish \/ CorGeminiInterrupt
    \/ CorGeminiFinishInterrupt \/ CorGeminiStepInterrupt
    \/ TranslateStart \/ TranslateReply \/ TranslateSleep \/ TranslateCheckpoint
    \/ TranslateFinish \/ TranslateInterrupt

InitResumable ==
    /\ \/ CorInit /\ cor_prog = "fix_chains_gemini" /\ TrOff
       \/ TrInit /\ CorOff
    /\ NormOff /\ DbOff /\ BldOff /\ KinOff /\ ValOff /\ MtOff /\ EnOff /\ IxOff

SpecResumable == InitResumable /\ [][ResumableNext]_vars

(***************************************************************************)
(* C1                                                                      *)
(***************************************************************************)
\* C1: applying the Text Normalizer to its own output changes nothing:
\* normalize_arabic(normalize_arabic(s)) = normalize_arabic(s) for every name s.
C1_Idempotent == norm_pc = "twice" => norm_twice = norm_once

(***************************************************************************)
(* C10                                                                     *)
(***************************************************************************)
\* a name with its diacritics removed, its alif / taa marbuta / yaa variants
\* unified and a leading kunyah prefix in the nominative
SpellingFold(s) ==
    SubWordAtStart(
        SubWordAtStart(UnifyLetters(RemoveChars(s, DIACRITICS)),
                       <<"A", "b", "y">>, <<"A", "b", "w">>),
        <<"A", "b", "A">>, <<"A", "b", "w">>)

\* two raw names that differ only in diacritics, alif shape, taa marbuta / haa,
\* yaa form or kunyah prefix spelling
SameUpToSpelling(a, b) == SpellingFold(a) = SpellingFold(b)

\* database entry e (1-based) lists narrator idx (0-based) among its variants
EntryLists(e, idx) ==
    \E k \in 1..Len(db_database[e].variants) : db_database[e].variants[k] = idx

\* C10: raw variants that differ only in diacritics, alif shape, taa marbuta /
\* haa, yaa form or kunyah prefix spelling get one normalized key, one cluster
\* and exactly one database entry, which lists every one of them.
C10_VariantsOneEntry ==
    db_pc = "done" =>
        \A i, j \in 1..Len(db_narrators) :
            SameUpToSpelling(db_narrators[i], db_narrators[j]) =>
                /\ normalize_arabic(db_narrators[i]) = normalize_arabic(db_narrators[j])
                /\ \E e \in 1..Len(db_database) :
                      /\ EntryLists(e, i - 1) /\ EntryLists(e, j - 1)
                      /\ \A f \in 1..Len(db_database) : EntryLists(f, i - 1) => f = e

(***************************************************************************)
(* Chain Builder and Kinship Resolver properties                           *)
(***************************************************************************)
\* the records linked so far, each with the row that was linked: the first
\* processed row of that book and number that passed the four tests
LinkedKeys == DictKeySet(bld_hadith_chain_lookup)

LinkedRow(key) ==
    bld_rows[CHOOSE i \in 1..bld_i :
                /\ <<bld_rows[i].book, bld_rows[i].num>> = key
                /\ parse_sanad_string(bld_rows[i].sanad).ok
                /\ \A j \in 1..(i - 1) :
                       \/ <<bld_rows[j].book, bld_rows[j].num>> /= key
                       \/ ~parse_sanad_string(bld_rows[j].sanad).ok]

\* the narrator ids of the names of a linked record
RecordIds(key) ==
    LET names == parse_sanad_string(LinkedRow(key).sanad).names
    IN  [p \in 1..Len(names) |-> DictGet(bld_narrator_to_id, names[p])]

RecordChain(key) == DictGet(bld_hadith_chain_lookup, key)

\* C2: two processed records with non-empty name sequences are linked to the
\* same chain id if and only if their narrator-id tuples are equal
\* element-wise.
C2_SameChainIffSameIds ==
    LET links == {[chain |-> RecordChain(k), ids |-> RecordIds(k)] : k \in LinkedKeys}
    IN  \A r1, r2 \in links : (r1.chain = r2.chain) <=> (r1.ids = r2.ids)

\* two records written differently (a father term in one, the father's name
\* in the other) are linked to one chain, after the files are saved
C2_Witness ==
    /\ bld_pc = "done"
    /\ \E k1, k2 \in LinkedKeys :
          /\ k1 /= k2
          /\ LinkedRow(k1).sanad /= LinkedRow(k2).sanad
          /\ RecordIds(k1) = RecordIds(k2)
          /\ RecordChain(k1) = RecordChain(k2)

\* the names a linked record came in with, and the narrators of its chain
RecordCleaned(key) == CleanItems(LinkedRow(key).sanad.items)

RecordResolved(key) ==
    LET ids == DictGet(bld_chain_id_to_narrator_ids, RecordChain(key))
    IN  [p \in 1..Len(ids) |-> narrators_list(bld_narrator_to_id)[ids[p] + 1]]

IsRelativeTerm(term) ==
    \/ PatternMatches(FATHER_PATTERNS, term)
    \/ PatternMatches(GRANDFATHER_PATTERNS, term)
    \/ PatternMatches(UNCLE_PATTERNS, term)

\* the narrator before position p (from 1) of a chain of names
NarratorBefore(names, p) ==
    IF p = 1 THEN [none |-> TRUE, name |-> <<>>] ELSE [none |-> FALSE, name |-> names[p - 1]]

\* the occurrences the resolver has passed: the term and the narrator before
\* it, read from the loaded chains
KinTerm(e) == kin_narrators[kin_chains[e.c][2][e.pos + 1] + 1]

KinBefore(e) == kin_narrators[kin_chains[e.c][2][e.pos] + 1]

KinOccurrences == {kin_resolved_names[i] : i \in 1..Len(kin_resolved_names)}

\* C7: the name resolved for a kinship reference at position p of a chain
\* depends only on the reference text, the narrator at position p-1 of that
\* chain and the father maps of the run: two occurrences, in any chains, with
\* the same text after the same narrator get the same resolution, in the
\* Chain Builder as in the Kinship Resolver.
C7_KinshipLocality ==
    LET records == {[cleaned |-> RecordCleaned(k), resolved |-> RecordResolved(k)] :
                        k \in LinkedKeys}
        occurrences == {[term |-> KinTerm(e), before |-> KinBefore(e), name |-> e.name] :
                            e \in KinOccurrences}
    IN  /\ \A r1, r2 \in records :
              \A p1 \in 1..Len(r1.cleaned), p2 \in 1..Len(r2.cleaned) :
                  ( /\ IsRelativeTerm(r1.cleaned[p1])
                    /\ r1.cleaned[p1] = r2.cleaned[p2]
                    /\ NarratorBefore(r1.resolved, p1) = NarratorBefore(r2.resolved, p2) )
                  => r1.resolved[p1] = r2.resolved[p2]
        /\ \A o1, o2 \in occurrences :
              (o1.term = o2.term /\ o1.before = o2.before) => o1.name = o2.name

\* the builder has replaced a father term by the father of the narrator
\* before it, and the resolver has resolved the same term after the same
\* narrator in two different chains
C7_Witness ==
    /\ kin_pc = "done"
    /\ \E k \in LinkedKeys : \E p \in 2..Len(RecordCleaned(k)) :
          /\ IsRelativeTerm(RecordCleaned(k)[p])
          /\ RecordResolved(k)[p] /= RecordCleaned(k)[p]
    /\ \E e1, e2 \in KinOccurrences :
          /\ e1.c /= e2.c
          /\ KinTerm(e1) = KinTerm(e2) /\ KinBefore(e1) = KinBefore(e2)
          /\ e1.name /= <<>>

(***************************************************************************)
(* Reconciler properties                                                   *)
(***************************************************************************)
\* a occurs in b as a contiguous run of characters
IsSubstring(a, b) ==
    \E i \in 0..(Len(b) - Len(a)) : \A k \in 1..Len(a) : b[i + k] = a[k]

\* t is one of the whitespace-separated tokens of s
IsToken(t, s) ==
    /\ t /= <<>>
    /\ \A k \in 1..Len(t) : t[k] \notin WhiteSpace
    /\ \E i \in 0..(Len(s) - Len(t)) :
          /\ \A k \in 1..Len(t) : s[i + k] = t[k]
          /\ i = 0 \/ s[i] \in WhiteSpace
          /\ i + Len(t) = Len(s) \/ s[i + Len(t) + 1] \in WhiteSpace

SharesSignificantToken(a, b) ==
    \E lo \in 1..Len(a) : \E hi \in lo..Len(a) :
        /\ IsToken(SubSeq(a, lo, hi), a)
        /\ IsToken(SubSeq(a, lo, hi), b)
        /\ SubSeq(a, lo, hi) \notin common_words

NamesMatchSpec(a, b) ==
    \/ a = b
    \/ IsSubstring(a, b) \/ IsSubstring(b, a)
    \/ SharesSignificantToken(a, b)

\* the positions (from 0) chains_match reported as not matching
ReportedPositions ==
    IF val_result.reason[1] = "name_diff"
    THEN {val_result.reason[3][i] : i \in 1..Len(val_result.reason[3])}
    ELSE {}

\* C8: names_match(a, b) holds exactly when a equals b, or one is a substring
\* of the other, or they share a whitespace-separated token outside the
\* common-token set; so a one-token significant primary name that is a token
\* of the secondary name matches, and an equal-length chain whose every
\* position matches is classified 'matched' and counted as matched.
C8_NamesMatchCharacterized ==
    (val_pc \in {"count", "done"} /\ Len(val_json_names) = Len(val_csv_names)) =>
        /\ \A p \in 1..Len(val_json_names) :
              /\ (p - 1 \notin ReportedPositions)
                    <=> NamesMatchSpec(val_json_names[p], val_csv_names[p])
              /\ ( /\ IsToken(val_json_names[p], val_json_names[p])
                   /\ val_json_names[p] \notin common_words
                   /\ IsToken(val_json_names[p], val_csv_names[p]) )
                 => p - 1 \notin ReportedPositions
        /\ (\A p \in 1..Len(val_json_names) :
                NamesMatchSpec(val_json_names[p], val_csv_names[p]))
           => /\ val_result.is_match
              /\ val_result.reason = <<"matched">>
              /\ val_pc = "done" =>
                    (val_stats.matched = 1 /\ val_stats.mismatched = 0
                        /\ val_mismatches = <<>>)

\* the first two positions of the chain of Hisham: the second name is one
\* token in the primary list and a longer name holding that token in the
\* secondary, and the record is counted as matched
C8_Witness ==
    /\ val_pc = "done"
    /\ val_json_names = <<normalize_arabic_cmp(Name_Hisham), normalize_arabic_cmp(Name_Urwa)>>
    /\ val_csv_names = <<normalize_arabic_cmp(Name_Hisham), normalize_arabic_cmp(Name_UrwaFull)>>
    /\ val_stats.matched = 1

\* C9: when the two name lists differ in length, chains_match returns
\* not-matched with the count_diff reason, which carries the two lengths and
\* no position list, and no names are compared.
C9_LengthMismatch ==
    (val_pc \in {"count", "done"} /\ Len(val_json_names) /= Len(val_csv_names)) =>
        /\ ~val_result.is_match
        /\ val_result.reason =
               <<"count_diff", Len(val_json_names), "vs", Len(val_csv_names)>>
        /\ val_result.compared = 0
        /\ val_pc = "done" =>
              /\ val_stats.mismatched = 1 /\ val_stats.matched = 0
              /\ Len(val_mismatches) = 1
              /\ val_mismatches[1].mismatch_reason[1] = "count_diff"

\* a primary list of two names against a secondary list of one name that
\* the first primary name does not match: still a length mismatch
C9_Witness ==
    /\ val_pc = "done"
    /\ Len(val_json_names) = 2 /\ Len(val_csv_names) = 1
    /\ ~NamesMatchSpec(val_json_names[1], val_csv_names[1])
    /\ val_result.reason[1] = "count_diff"

(***************************************************************************)
(* Matcher properties                                                      *)
(***************************************************************************)
\* the index the running program looks names up in
MtIndex ==
    IF mt_pc = "enrich_narrators" THEN mt_rawi_index
    ELSE IF mt_pc = "fix_chains_from_csv" THEN mt_csv_index.exact_ar
    ELSE mt_narrator_index

\* the normalized form of the last query, as the running program computes it
MtNormalized ==
    IF mt_pc = "enrich_narrators" THEN normalize_arabic_enrich(mt_call.query)
    ELSE normalize_arabic_cmp(mt_call.query)

\* a manual alias maps the last query: one of its keys is the query, its
\* normalized form, or normalizes to the same form
AliasMapsQuery ==
    \E i \in 1..Len(mt_aliases) :
        \/ mt_aliases[i][1] \in {Strip(mt_call.query), MtNormalized}
        \/ normalize_arabic_cmp(mt_aliases[i][1]) = MtNormalized

\* C5: in each of the four matchers, when no manual alias maps the query and
\* the normalized query is a key of the index, the result is the identity
\* stored under that key, with confidence 1.0 where a confidence is returned.
C5_ExactPreferred ==
    (/\ mt_call.fn /= "none"
     /\ ~AliasMapsQuery
     /\ DictHas(MtIndex, MtNormalized))
    => IF mt_call.fn = "find_best_match"
       THEN /\ mt_result.match = <<DictGet(MtIndex, MtNormalized)>>
            /\ mt_result.score = FloatOne
       ELSE mt_result.id = <<DictGet(MtIndex, MtNormalized)>>

\* the key k reaches the threshold th for the normalized query n: by its
\* containment score shorter / longer * 0.95, or, when fuzzy matching is
\* enabled, by its similarity
KeyReaches(n, k, th, use_fuzzy) ==
    \/ /\ IsSubstring(n, k) \/ IsSubstring(k, n)
       /\ 19 * Min(Len(n), Len(k)) * th[2] >= 20 * Max(Len(n), Len(k)) * th[1]
    \/ /\ use_fuzzy
       /\ ScoreGeq(calculate_similarity(n, k), th)

\* C6: find_best_match returns (None, 0.0) for every query for which no key
\* of the index equals the normalized query and no key reaches a score of at
\* least the threshold, and every identity it returns comes with a reported
\* score of at least the threshold.
C6_NoFabrication ==
    mt_call.fn = "find_best_match" =>
        LET n == MtNormalized
            th == mt_call.threshold
            reached == \E k \in DictKeySet(mt_rawi_index) :
                          KeyReaches(n, k, th, mt_call.use_fuzzy)
        IN  /\ (~DictHas(mt_rawi_index, n) /\ ~reached)
                => (mt_result.match = <<>> /\ mt_result.score = FloatZero)
            /\ mt_result.match /= <<>>
                => FloatGeq(mt_result.score, FloatDiv(th[1], th[2]))

\* find_best_match, at the threshold 0.6 of main, has returned (None, 0.0) for
\* a query that contains a key of the index whose containment score is below
\* the threshold
C6_Witness ==
    /\ mt_call.fn = "find_best_match"
    /\ mt_call.threshold = <<3, 5>>
    /\ mt_call.query = Name_HishamLong
    /\ DictHas(mt_rawi_index, normalize_arabic_enrich(Name_Hisham))
    /\ mt_result.match = <<>>

(***************************************************************************)
(* Correction properties                                                   *)
(***************************************************************************)
\* the files an uninterrupted run of fix_chains_gemini over the whole queue
\* leaves, started on the initial chain table with no progress file
UninterruptedRun ==
    GeminiLoopFrom([NoMem EXCEPT !.chains = InitialChains, !.queue = cor_mismatches],
                   cor_replies, build_narrator_index(cor_narrators))

\* every record of the queue is recorded in the persisted processed set
AllProcessed ==
    /\ cor_file_progress.exists
    /\ \A k \in 1..Len(cor_mismatches) :
          cor_mismatches[k].chain_id \in cor_file_progress.processed

\* C3: runs of the oracle-driven pass that are limited or interrupted and then
\* resumed from the persisted processed set end, once every record of the
\* queue is recorded as processed, with the chain table and the skipped queue
\* of one uninterrupted run over the queue, several records of which may
\* carry the same chain ID.
C3_Resumable ==
    (cor_prog = "fix_chains_gemini" /\ cor_pc = "idle" /\ AllProcessed)
    => LET run == UninterruptedRun
       IN  /\ cor_file_chains = run.chains
           /\ cor_file_skipped = run.skipped_list

\* C4: in each of the three correction steps chains[chain_id] is assigned
\* only if every name of the corrected sequence has obtained a narrator ID,
\* the list assigned holds exactly one ID per name of the sequence, in order,
\* and when a name is unmatched chains[chain_id] keeps its previous value.
C4_AllOrNothing ==
    (cor_pc = "loop" /\ cor_last.prog /= "none")
    => LET names == cor_last.names
           found == cor_last.found
           every == \A k \in 1..Len(names) : found[k] /= <<>>
           now == EntryOf(cor_mem.chains, cor_last.chain_id)
       IN  /\ cor_last.assigned
               => /\ every
                  /\ now = << [k \in 1..Len(names) |-> found[k][1]] >>
           /\ ~every => (~cor_last.assigned /\ now = cor_last.before)


(***************************************************************************)
(* Father references after a patronymic                                    *)
(***************************************************************************)
\* the places (from 2) of the words of a name that are the marker bn
MarkerPlaces(words) == {k \in 2..(Len(words) - 1) : words[k] = <<"b","n">>}

\* a name of the form X bn Y ...
HasPatronymic(name) == MarkerPlaces(Split(name)) /= {}

\* Y, the word directly after the first marker
FatherAfterMarker(name) ==
    LET words == Split(name)
        k == CHOOSE k \in MarkerPlaces(words) : \A j \in MarkerPlaces(words) : k <= j
    IN  words[k + 1]

\* a father reference that carries no name of its own
BareFatherTerm(term) ==
    /\ PatternMatches(FATHER_PATTERNS, term)
    /\ NameAfter(FATHER_PATTERNS, term) = <<>>

\* C11: a father reference with no embedded name, at a position whose
\* predecessor is named X bn Y ..., is resolved to Y, the word directly after
\* the marker, by the Chain Builder (resolve_relative_term) and by the
\* Kinship Resolver (resolve_kinship_in_chains) alike.
C11_FatherFromPatronymic ==
    LET records == {[cleaned |-> RecordCleaned(k), resolved |-> RecordResolved(k)] :
                        k \in LinkedKeys}
        occurrences == {[term |-> KinTerm(e), before |-> KinBefore(e), name |-> e.name] :
                            e \in KinOccurrences}
    IN  /\ \A r \in records : \A p \in 2..Len(r.cleaned) :
              (BareFatherTerm(r.cleaned[p]) /\ HasPatronymic(r.resolved[p - 1]))
              => r.resolved[p] = FatherAfterMarker(r.resolved[p - 1])
        /\ \A o \in occurrences :
              (kinship_type_of(o.term) = "father" /\ HasPatronymic(o.before))
              => o.name = FatherAfterMarker(o.before)
(***************************************************************************)
(* Manual data and the indexes                                             *)
(***************************************************************************)
\* the ids the alias table holds for the last query
AliasIds ==
    {mt_aliases[i][2] : i \in {j \in 1..Len(mt_aliases) :
        \/ mt_aliases[j][1] \in {Strip(mt_call.query), MtNormalized}
        \/ normalize_arabic_cmp(mt_aliases[j][1]) = MtNormalized}}

\* the entries of narrators_enriched.json that went through matching
MatchedEntries ==
    {e \in {en_st.enriched[k] : k \in 1..Len(en_st.enriched)} :
        ~e.isKinshipReference /\ ~e.isNonName}

\* C12: a name for which the manual table has an entry, under its raw or its
\* normalized form, gets that entry whatever the index holds: the alias id in
\* find_narrator_id of fix_skipped_chains, the manual data in
\* enrich_narrators.
C12_ManualPrecedence ==
    /\ (mt_pc = "fix_skipped_chains" /\ mt_call.fn /= "none" /\ AliasIds /= {})
       => \E id \in AliasIds : mt_result.id = <<id>>
    /\ \A e \in MatchedEntries :
          DictHas(en_manual_index, normalize_arabic_enrich(e.nameOriginal))
          => /\ e.source = "manual"
             /\ e.nameAr = DictGet(en_manual_index,
                                   normalize_arabic_enrich(e.nameOriginal)).nameAr
(***************************************************************************)
(* The chain table over its lifecycle                                      *)
(***************************************************************************)
\* no two chain ids of a chain table hold the same tuple of narrator ids
NoTwinChains(chains) ==
    \A i, j \in 1..Len(chains) : i /= j => chains[i][2] /= chains[j][2]

\* C13: in every state of the chain table, while it is built, when it is
\* saved, and during and after every correction run that overwrites
\* chains[chain_id], two distinct chain ids never hold the same ordered tuple
\* of narrator ids.
C13_ChainsStayDistinct ==
    /\ NoTwinChains(bld_chain_id_to_narrator_ids)
    /\ NoTwinChains(fs_chains)
    /\ NoTwinChains(cor_mem.chains)
    /\ NoTwinChains(cor_file_chains)

(***************************************************************************)
(* C14                                                                     *)
(***************************************************************************)
\* the rows of the events CSV the loop of translate_seera passes in a step
RowsPassed == {tr_events[k].event_id : k \in (tr_m.idx + 1)..tr_m'.idx}

\* fix_chains_gemini: the progress file only gains ids, the set in memory
\* holds the file's ids from the start of a run on and only gains ids
\* during it, and the chain of the record an iteration handled is in it
GeminiProcessedGrows ==
    /\ cor_file_progress.processed \subseteq cor_file_progress'.processed
    /\ cor_pc' = "loop" => cor_file_progress.processed \subseteq cor_mem'.processed_ids
    /\ (cor_pc = "loop" /\ cor_pc' = "loop")
       => /\ cor_mem.processed_ids \subseteq cor_mem'.processed_ids
          /\ cor_mem'.i > cor_mem.i
             => cor_mem.queue[cor_mem.i + 1].chain_id \in cor_mem'.processed_ids
    /\ cor_file_progress' /= cor_file_progress
       => cor_file_progress'.processed = cor_mem.processed_ids \cup cor_mem'.processed_ids

\* translate_seera: the same for its progress file, its processed_ids and
\* the rows its loop passes
TranslateProcessedGrows ==
    /\ SetOfList(tr_file_progress.processed_ids)
          \subseteq SetOfList(tr_file_progress'.processed_ids)
    /\ TrRunning'
       => SetOfList(tr_file_progress.processed_ids) \subseteq tr_m'.processed_ids
    /\ (TrRunning /\ TrRunning')
       => /\ tr_m.processed_ids \subseteq tr_m'.processed_ids
          /\ RowsPassed \subseteq tr_m'.processed_ids
    /\ tr_file_progress' /= tr_file_progress
       => SetOfList(tr_file_progress'.processed_ids) \subseteq tr_m'.processed_ids

\* C14: the set of processed ids is loaded from the checkpoint at the start
\* of a run and only grows: every id handled is added, none is removed, and
\* every checkpoint written holds the ids of the checkpoint read at the start
\* and of every checkpoint written before it
C14_ProcessedIdsGrow == [][GeminiProcessedGrows /\ TranslateProcessedGrows]_vars

(***************************************************************************)
(* C15                                                                     *)
(***************************************************************************)
\* the oracle call failed: it raised, or its answer was empty
FailedReply(reply) == reply.kind = "error" \/ Strip(reply.text) = <<>>

FailedChainReply(reply) ==
    reply.kind = "error" \/ (reply.kind = "chain" /\ reply.names = <<>>)

\* the records fix_chains_gemini has handled in this run
GeminiHandled == {cor_mem.queue[j] : j \in 1..cor_mem.i}

SkippedWithReason(hadith_id) ==
    \E k \in 1..Len(cor_mem.skipped_list) :
        /\ cor_mem.skipped_list[k].hadith_id = hadith_id
        /\ cor_mem.skipped_list[k].reason /= <<>>

FailedRecorded(event_id, col) ==
    \E k \in 1..Len(tr_m.failed) :
        tr_m.failed[k].event_id = event_id /\ tr_m.failed[k].col = col

\* C15: an oracle call that fails, by an exception or an empty result, is
\* attempted a bounded number of times and then the item is recorded as
\* failed or skipped with a reason, the loop going on with the next item
C15_FailuresRecorded ==
    /\ (cor_prog = "fix_chains_gemini" /\ cor_pc = "loop")
       => \A mm \in GeminiHandled :
             FailedChainReply(cor_replies[mm.hadith_id]) => SkippedWithReason(mm.hadith_id)
    /\ \A k \in 1..Len(tr_calls) :
          /\ tr_calls[k].attempts <= MAX_RETRIES
          /\ FailedReply(tr_calls[k].reply)
             => FailedRecorded(tr_calls[k].event_id, tr_calls[k].col)

(***************************************************************************)
(* C16                                                                     *)
(***************************************************************************)
\* the entries of the narrator database that stand for a kinship term
KinshipEntries == {db_database[k] : k \in {j \in 1..Len(db_database) : db_database[j].isKinship}}

\* C16: no entry of the narrator database that is a kinship reference is
\* marked as matched against the biographical index
C16_KinshipNeverMatched == \A e \in KinshipEntries : ~e.matched

(***************************************************************************)
(* C17                                                                     *)
(***************************************************************************)
\* C17: while the rows are consumed, the entry of a key that is in the
\* biographical index is never replaced: the first row that writes a key
\* keeps it
C17_FirstWriterWins ==
    [][\A key \in DictKeySet(ix_index) :
          DictGet(ix_index', key) = DictGet(ix_index, key)]_vars

(***************************************************************************)
(* C18                                                                     *)
(***************************************************************************)
\* C18: every occurrence of a kinship term the resolver has met, at any
\* position of a chain, has ended as resolved or as unresolved: the count
\* of occurrences is the sum of the two counts
C18_OccurrencesSettled ==
    kin_stats.total_kinship_refs = kin_stats.resolved + kin_stats.unresolved

(***************************************************************************)
(* C19                                                                     *)
(***************************************************************************)
\* a name of the form X bn Y bn Z ...: a second marker directly after Y
HasGrandfather(name) ==
    \E k \in MarkerPlaces(Split(name)) :
        /\ \A j \in MarkerPlaces(Split(name)) : k <= j
        /\ k + 2 \in MarkerPlaces(Split(name))

\* Z, the word directly after the second marker
GrandfatherAfterMarker(name) ==
    LET words == Split(name)
        k == CHOOSE k \in MarkerPlaces(words) : \A j \in MarkerPlaces(words) : k <= j
    IN  words[k + 3]

\* a name as written, or as the resolver's normalize writes it
UpToNormalize(name) == {name, normalize(name)}

\* strategy (b) applied to an occurrence of the resolver: the name it gives,
\* <<>> when the preceding narrator's name has no such patronymic level
PatronymicOf(kind, before) ==
    IF kind = "father" /\ HasPatronymic(before) THEN FatherAfterMarker(before)
    ELSE IF kind = "grandfather" /\ HasGrandfather(before) THEN GrandfatherAfterMarker(before)
    ELSE <<>>

\* strategy (c): the entry of the preceding narrator in the precomputed map
MapFatherOf(before) ==
    IF DictHas(kin_narrator_to_father, before) THEN DictGet(kin_narrator_to_father, before)
    ELSE IF DictHas(kin_narrator_to_father, normalize(before))
    THEN DictGet(kin_narrator_to_father, normalize(before))
    ELSE <<>>

\* C19: a kinship occurrence is resolved by the first strategy that
\* succeeds: (a) the name inside the reference text, (b) the patronymic of
\* the narrator before it, one level further for a grandfather reference,
\* (c) the narrator-to-father map; a later strategy is not used when an
\* earlier one succeeds
C19_ResolutionOrder ==
    /\ \A key \in LinkedKeys :
          \A p \in 2..Len(RecordCleaned(key)) :
             ( /\ PatternMatches(FATHER_PATTERNS, RecordCleaned(key)[p])
               /\ NameAfter(FATHER_PATTERNS, RecordCleaned(key)[p]) /= <<>> )
             => RecordResolved(key)[p] = NameAfter(FATHER_PATTERNS, RecordCleaned(key)[p])
    /\ \A e \in KinOccurrences :
          LET kind == kinship_type_of(KinTerm(e))
              by_patronymic == PatronymicOf(kind, KinBefore(e))
          IN  /\ by_patronymic /= <<>> => e.name \in UpToNormalize(by_patronymic)
              /\ (kind = "father" /\ by_patronymic = <<>> /\ MapFatherOf(KinBefore(e)) /= <<>>)
                 => e.name = MapFatherOf(KinBefore(e))

(***************************************************************************)
(* C20                                                                     *)
(***************************************************************************)
\* the places of narrator idx in the clusters: <<k, j>> when it is the j-th
\* variant of the k-th cluster
PlacesOf(idx) ==
    {<<k, j>> \in (1..Len(db_groups)) \X (1..MaxNarrators) :
        /\ j <= Len(db_groups[k][2].variants)
        /\ db_groups[k][2].variants[j] = idx}

ClusterOf(idx) == (CHOOSE place \in PlacesOf(idx) : TRUE)[1]

\* C20: the clusters partition the occurrences grouped so far by their
\* normalized form: every index is in exactly one cluster, whose key is the
\* normalized form of its text, the variant texts run in step with the
\* variant indices, and two occurrences are in one cluster exactly when
\* their normalized forms are equal
C20_ExactKeyPartition ==
    /\ \A idx \in 0..(db_idx - 1) :
          /\ Cardinality(PlacesOf(idx)) = 1
          /\ db_groups[ClusterOf(idx)][1] = normalize_arabic(db_narrators[idx + 1])
    /\ \A k \in 1..Len(db_groups) :
          /\ \A j \in 1..(k - 1) : db_groups[j][1] /= db_groups[k][1]
          /\ Len(db_groups[k][2].variant_names) = Len(db_groups[k][2].variants)
          /\ \A j \in 1..Len(db_groups[k][2].variants) :
                /\ db_groups[k][2].variants[j] \in 0..(db_idx - 1)
                /\ db_groups[k][2].variant_names[j]
                      = db_narrators[db_groups[k][2].variants[j] + 1]
    /\ \A i1, i2 \in 0..(db_idx - 1) :
          (ClusterOf(i1) = ClusterOf(i2))
             <=> (normalize_arabic(db_narrators[i1 + 1])
                     = normalize_arabic(db_narrators[i2 + 1]))

\* three occurrences are grouped: two spellings of one name in one cluster
\* and another name in a second cluster
C20_Witness ==
    /\ db_idx = MaxNarrators /\ Len(db_groups) = 2
    /\ \E k \in 1..Len(db_groups) :
          /\ Len(db_groups[k][2].variants) = 2
          /\ db_groups[k][2].variant_names[1] /= db_groups[k][2].variant_names[2]

(***************************************************************************)
(* C21                                                                     *)
(***************************************************************************)
\* the positions the loop of the resolver has passed: place c of
\* chains.items() and position pos (from 0) of that chain
KinPassed ==
    {e \in (1..Len(kin_chains)) \X (0..(MaxChainItems - 1)) :
        /\ e[2] < Len(kin_chains[e[1]][2])
        /\ e[1] < kin_c \/ (e[1] = kin_c /\ e[2] < kin_pos)}

KinNarratorAt(e) == kin_narrators[kin_chains[e[1]][2][e[2] + 1] + 1]

\* C21: a reference the clusterer flags as kinship, at a position the
\* resolver has passed, is a kinship occurrence for the resolver and, when a
\* position precedes it, has been attempted against the narrator there
C21_FlaggedRecognised ==
    \A e \in KinPassed :
        is_kinship_term(KinNarratorAt(e))
        => /\ kinship_type_of(KinNarratorAt(e)) /= "None"
           /\ e[2] > 0 => \E o \in KinOccurrences : o.c = e[1] /\ o.pos = e[2]

(***************************************************************************)
(* C22                                                                     *)
(***************************************************************************)
\* an empty or whitespace-only text
IsBlank(name) == \A i \in 1..Len(name) : name[i] \in WhiteSpace

\* a text with a character that is neither a mark nor whitespace
HasNameLetter(name) == \E i \in 1..Len(name) : name[i] \notin (DIACRITICS \cup WhiteSpace)

\* C22: every empty or whitespace-only text grouped so far normalizes to
\* the empty key and lies in the cluster keyed by the empty string, every
\* text with a name letter normalizes to a non-empty key and lies in a
\* cluster with a non-empty key, and the database entry whose canonical
\* name is empty lists no text with a name letter
C22_EmptyKeyApart ==
    /\ \A idx \in 0..(db_idx - 1) :
          LET name == db_narrators[idx + 1]
              key == db_groups[ClusterOf(idx)][1]
          IN  /\ IsBlank(name) => normalize_arabic(name) = <<>> /\ key = <<>>
              /\ HasNameLetter(name) => normalize_arabic(name) /= <<>> /\ key /= <<>>
    /\ \A k \in 1..Len(db_groups) :
          db_groups[k][1] = <<>>
          => \A j \in 1..Len(db_groups[k][2].variant_names) :
                ~HasNameLetter(db_groups[k][2].variant_names[j])
    /\ \A e \in 1..Len(db_database) :
          db_database[e].canonicalName = <<>>
          => \A j \in 1..Len(db_database[e].variantNames) :
                ~HasNameLetter(db_database[e].variantNames[j])

\* the database was created from an empty text, a whitespace-only text and
\* the lone conjunction letter: the first two share the entry of the empty
\* key and the letter has an entry of its own
C22_Witness ==
    /\ db_pc = "done" /\ Len(db_database) = 2
    /\ \E e \in 1..Len(db_database) :
          /\ db_database[e].canonicalName = <<>>
          /\ Len(db_database[e].variantNames) = 2
          /\ \E j \in 1..2 : db_database[e].variantNames[j] = Name_Blank
          /\ \E j \in 1..2 : db_database[e].variantNames[j] = <<>>
    /\ \E e \in 1..Len(db_database) :
          /\ db_database[e].canonicalName = <<"w">>
          /\ db_database[e].variantNames = <<Name_Waw>>

(***************************************************************************)
(* C23                                                                     *)
(***************************************************************************)
\* the key of entry i of the index and the query are contained one in the
\* other, and the contained string starts at position 0 of the longer one
HitAtStart(normalized, exact_ar, i) ==
    \/ Contains(normalized, exact_ar[i][1]) /\ Find(normalized, exact_ar[i][1]) = 0
    \/ /\ ~Contains(normalized, exact_ar[i][1])
       /\ Contains(exact_ar[i][1], normalized) /\ Find(exact_ar[i][1], normalized) = 0

\* the contained string starts elsewhere
HitElsewhere(normalized, exact_ar, i) ==
    \/ Contains(normalized, exact_ar[i][1]) /\ Find(normalized, exact_ar[i][1]) > 0
    \/ /\ ~Contains(normalized, exact_ar[i][1])
       /\ Contains(exact_ar[i][1], normalized) /\ Find(exact_ar[i][1], normalized) > 0

\* the length of the contained string
HitLen(normalized, exact_ar, i) ==
    IF Contains(normalized, exact_ar[i][1]) THEN Len(exact_ar[i][1]) ELSE Len(normalized)

\* the last call returned the identity of a longest hit of the set hits
LongestOf(normalized, exact_ar, hits) ==
    \E i \in hits :
        /\ mt_result.id = <<exact_ar[i][2]>>
        /\ \A j \in hits : HitLen(normalized, exact_ar, j) <= HitLen(normalized, exact_ar, i)

\* C23: when the normalized query of a call of the strict matcher is not a
\* key of the index, a prefix hit of length 8 or more makes the call return
\* a longest prefix hit, whatever hits start elsewhere; without one, a hit
\* elsewhere of length 12 or more makes it return a longest such hit; with
\* neither, containment decides nothing and the result is that of the
\* word-based strategy
C23_StrictContainment ==
    (mt_pc = "fix_chains_from_csv" /\ mt_call.fn = "find_narrator_id")
    => LET normalized == normalize_arabic_cmp(mt_call.query)
           exact_ar == mt_csv_index.exact_ar
           starts == {i \in 1..Len(exact_ar) : HitAtStart(normalized, exact_ar, i)}
           others == {i \in 1..Len(exact_ar) : HitElsewhere(normalized, exact_ar, i)}
           start_ok == \E i \in starts : HitLen(normalized, exact_ar, i) >= 8
           other_ok == \E i \in others : HitLen(normalized, exact_ar, i) >= 12
       IN  ~DictHas(exact_ar, normalized)
           => /\ start_ok => LongestOf(normalized, exact_ar, starts)
              /\ (~start_ok /\ other_ok) => LongestOf(normalized, exact_ar, others)
              /\ (~start_ok /\ ~other_ok)
                 => \E order \in Orders(csv_words_of(normalized)) :
                       mt_result.id = CsvWordMatch(CandidatesFrom(order,
                                          mt_csv_index.word_index, <<>>), Len(order))

\* the index holds a longer name that lies inside the query and then a
\* shorter one that starts it: the call returned the second
C23_Witness ==
    /\ mt_pc = "fix_chains_from_csv" /\ mt_call.fn = "find_narrator_id"
    /\ mt_call.query = Name_HishamLong
    /\ mt_csv_index.exact_ar = << <<normalize_arabic_cmp(Name_UrwaFull), 0>>,
                                  <<normalize_arabic_cmp(Name_Hisham), 1>> >>
    /\ mt_result.id = <<1>>

(***************************************************************************)
(* C24                                                                     *)
(***************************************************************************)
\* the positions, counted from 0, at which the two lists hold names that
\* names_match rejects
RejectedPositions ==
    {i \in 0..(Len(val_json_names) - 1) :
        ~names_match(val_json_names[i + 1], val_csv_names[i + 1])}

\* the list holds exactly the members of the set, in increasing order
IncreasingListOf(list, set) ==
    /\ Len(list) = Cardinality(set)
    /\ \A k \in 1..Len(list) : list[k] \in set
    /\ \A k \in 1..(Len(list) - 1) : list[k] < list[k + 1]

\* C24: for two lists of equal length chains_match reports a match exactly
\* when names_match accepts every position, and otherwise reports exactly
\* the rejected positions in increasing order; the record is then counted
\* matched and nothing is emitted, or counted mismatched and one mismatch
\* is emitted that carries both full name lists and the reason
C24_PositionsReported ==
    (val_pc \in {"count", "done"} /\ Len(val_json_names) = Len(val_csv_names)) =>
        /\ val_result.is_match <=> RejectedPositions = {}
        /\ val_result.is_match => val_result.reason = <<"matched">>
        /\ ~val_result.is_match =>
              /\ Len(val_result.reason) = 3
              /\ val_result.reason[1] = "name_diff" /\ val_result.reason[2] = "positions"
              /\ IncreasingListOf(val_result.reason[3], RejectedPositions)
        /\ (val_pc = "done" /\ RejectedPositions = {}) =>
              /\ val_stats = [matched |-> 1, mismatched |-> 0]
              /\ val_mismatches = <<>>
        /\ (val_pc = "done" /\ RejectedPositions /= {}) =>
              /\ val_stats = [matched |-> 0, mismatched |-> 1]
              /\ Len(val_mismatches) = 1
              /\ val_mismatches[1].json_chain = val_json_names
              /\ val_mismatches[1].csv_chain = val_csv_names
              /\ val_mismatches[1].mismatch_reason = val_result.reason

\* two lists of two names that differ at both positions were compared and
\* the mismatch was emitted with positions 0 and 1
C24_Witness ==
    /\ val_pc = "done" /\ Len(val_json_names) = 2 /\ Len(val_csv_names) = 2
    /\ Len(val_mismatches) = 1
    /\ val_mismatches[1].mismatch_reason = <<"name_diff", "positions", <<0, 1>> >>

(***************************************************************************)
(* C25                                                                     *)
(***************************************************************************)
\* the list a running correction program queues its unfinished records in
OutputQueue ==
    IF cor_prog \in {"fix_chains_gemini", "fix_chain_data"} THEN cor_mem.skipped_list
    ELSE cor_mem.unfixable

\* the record id and the chain id an entry of the queue is filed under
RecordIdOf(e) == IF cor_prog = "fix_chain_data" THEN e.hadithId ELSE e.hadith_id

ChainIdOf(e) == IF cor_prog = "fix_chain_data" THEN e.chainId ELSE e.chain_id

\* the narrator ids the last step obtained, in the order of the names
RECURSIVE IdsFound(_)
IdsFound(found) ==
    IF found = <<>> THEN <<>>
    ELSE IF Head(found) = <<>> THEN IdsFound(Tail(found))
    ELSE <<Head(found)[1]>> \o IdsFound(Tail(found))

\* the entry carries the ids obtained so far or the corrected list of names
CarriesPartial(e) ==
    IF cor_prog = "fix_chains_from_csv"
    THEN e.partial_chain = IdsFound(cor_last.found) \/ e.csv_chain = cor_last.names
    ELSE IF cor_prog = "fix_skipped_chains"
    THEN e.partial_chain = IdsFound(cor_last.found) \/ e.chain_names = cor_last.names
    ELSE IF cor_prog = "fix_chain_data"
    THEN e.correctChain /= <<>> /\ NamesAr(e.correctChain[1]) = cor_last.names
    ELSE e.has_gemini_chain /\ e.gemini_chain = cor_last.names

\* C25: when the step a correction program has just run left a name of the
\* corrected sequence without a narrator id, the program's output queue
\* holds exactly one entry for the record, with the record's id, its chain
\* id, and the ids obtained so far or the corrected list of names
C25_PartialRequeued ==
    (/\ cor_pc = "loop" /\ cor_last.prog /= "none"
     /\ \E k \in 1..Len(cor_last.names) :
           cor_last.names[k] /= <<>> /\ cor_last.found[k] = <<>>)
    => LET record == cor_mem.queue[cor_mem.i]
           places == {k \in 1..Len(OutputQueue) : RecordIdOf(OutputQueue[k]) = record.hadith_id}
       IN  /\ Cardinality(places) = 1
           /\ \A k \in places :
                 /\ ChainIdOf(OutputQueue[k]) = record.chain_id
                 /\ CarriesPartial(OutputQueue[k])

(***************************************************************************)
(* C26                                                                     *)
(***************************************************************************)
\* the keys of a table are pairwise distinct
DistinctKeys(d) == \A i, j \in 1..Len(d) : d[i][1] = d[j][1] => i = j

\* the values of a table are exactly 0 .. Len - 1, each held once
SequentialIds(d) ==
    /\ {d[k][2] : k \in 1..Len(d)} = 0..(Len(d) - 1)
    /\ \A i, j \in 1..Len(d) : d[i][2] = d[j][2] => i = j

\* C26: in every state of the Chain Builder, and in the files it saves, the
\* narrator ids are exactly 0 .. n-1 with one id per distinct name, every
\* id in a chain is below n, the chain ids are exactly c0 .. c(m-1), the
\* chain id of every linked record is a key of the chain table, and every
\* chain is the chain of at least one linked record
C26_ReferentialIntegrity ==
    LET n == Len(bld_narrator_to_id)
        m == Len(bld_chain_id_to_narrator_ids)
    IN  /\ DistinctKeys(bld_narrator_to_id) /\ SequentialIds(bld_narrator_to_id)
        /\ bld_next_narrator_id = n
        /\ \A c \in 1..m :
              \A p \in 1..Len(bld_chain_id_to_narrator_ids[c][2]) :
                  bld_chain_id_to_narrator_ids[c][2][p] \in 0..(n - 1)
        /\ DistinctKeys(bld_chain_id_to_narrator_ids)
        /\ DictKeySet(bld_chain_id_to_narrator_ids) = {ChainId(j) : j \in 0..(m - 1)}
        /\ bld_next_chain_id = m
        /\ \A key \in LinkedKeys : DictHas(bld_chain_id_to_narrator_ids, RecordChain(key))
        /\ \A c \in 1..m :
              \E key \in LinkedKeys : RecordChain(key) = bld_chain_id_to_narrator_ids[c][1]
        /\ bld_pc = "done" =>
              /\ Len(fs_narrators) = n
              /\ \A k \in 1..n :
                    fs_narrators[bld_narrator_to_id[k][2] + 1] = bld_narrator_to_id[k][1]
              /\ fs_chains = bld_chain_id_to_narrator_ids

\* two records were linked to two chains that share a narrator, and the
\* files were saved
C26_Witness ==
    /\ bld_pc = "done"
    /\ Cardinality(LinkedKeys) = 2 /\ Len(fs_chains) = 2 /\ Len(fs_narrators) >= 3
    /\ \E id \in 0..(Len(fs_narrators) - 1) :
          \A c \in 1..2 : \E p \in 1..Len(fs_chains[c][2]) : fs_chains[c][2][p] = id

(***************************************************************************)
(* C27                                                                     *)
(***************************************************************************)
\* the skipped file holds an entry for the chain
SkippedPersisted(chain_id) ==
    \E k \in 1..Len(cor_file_skipped) : cor_file_skipped[k].chain_id = chain_id

\* the chain table on disk holds, for the chain, the list of ids the answer
\* for one of its records maps to
CorrectionPersisted(chain_id) ==
    \E h \in 1..Len(cor_mismatches) :
        /\ cor_mismatches[h].chain_id = chain_id
        /\ cor_replies[h].kind = "chain" /\ cor_replies[h].names /= <<>>
        /\ LET r == GeminiMapFrom(cor_replies[h].names, 1,
                                  build_narrator_index(cor_narrators), NoMapped(<<>>))
           IN  /\ r.missing = <<>>
               /\ EntryOf(cor_file_chains, chain_id) = <<r.new_chain>>

\* C27: whenever the oracle-driven pass stops, at the end of a run, between
\* two iterations or between two writes of a save, every chain id of the
\* processed-id file has its outcome on disk: its corrected list in the
\* chain table or its entry in the skipped file
C27_CheckpointConsistent ==
    cor_prog = "fix_chains_gemini"
    => \A chain_id \in cor_file_progress.processed :
          SkippedPersisted(chain_id) \/ CorrectionPersisted(chain_id)

(***************************************************************************)
(* C28                                                                     *)
(***************************************************************************)
\* the chain ids of the records a running program has taken from its queue,
\* the record of the step under way included
HandledChains ==
    {cor_mem.queue[j].chain_id : j \in 1..Min(cor_mem.i + 1, Len(cor_mem.queue))}

\* the two tables agree on every chain id outside the set
SameOutside(before, after, ids) ==
    \A k \in (DictKeySet(before) \cup DictKeySet(after)) \ ids :
        EntryOf(after, k) = EntryOf(before, k)

\* the chain id each record is linked to
ChainLinks == [h \in 1..Len(cor_mismatches) |-> cor_mismatches[h].chain_id]

RECURSIVE JsonNamesFrom(_, _, _)
JsonNamesFrom(narrator_ids, i, narrators) ==
    IF i > Len(narrator_ids) THEN <<>>
    ELSE (IF narrator_ids[i] < Len(narrators) /\ narrators[narrator_ids[i] + 1] /= <<>>
          THEN <<normalize_arabic_cmp(narrators[narrator_ids[i] + 1])>>
          ELSE <<>>)
         \o JsonNamesFrom(narrator_ids, i + 1, narrators)

\* validate_chains.get_json_chain_names, <<>> standing for None too
get_json_chain_names(chain_id, chains, narrators) ==
    IF ~DictHas(chains, chain_id) THEN <<>>
    ELSE JsonNamesFrom(DictGet(chains, chain_id), 1, narrators)

\* the names of a secondary chain as validate_chains.get_csv_chain_names
\* delivers them
CsvNamesOf(csv_chain) == [k \in 1..Len(csv_chain) |-> normalize_arabic_cmp(csv_chain[k])]

\* the records of the queue that fix_chains_from_csv did not file as unfixable
AppliedRecords ==
    {h \in 1..Len(cor_mismatches) :
        \A k \in 1..Len(cor_file_unfixable) :
            cor_file_unfixable[k].hadith_id /= cor_mismatches[h].hadith_id}

\* C29: once fix_chains_from_csv has run over its queue and saved its files,
\* chains_match finds every record whose correction was applied matched,
\* comparing the names of the record's chain in the saved table with the
\* csv_chain of the record.
C29_CorrectedRecordsMatch ==
    (cor_prog = "fix_chains_from_csv" /\ cor_pc = "idle" /\ cor_last.prog /= "none")
    => \A h \in AppliedRecords :
          chains_match(get_json_chain_names(cor_mismatches[h].chain_id, cor_file_chains,
                                            cor_narrators),
                       CsvNamesOf(cor_mismatches[h].csv_chain)).is_match

(***************************************************************************)
(* C30                                                                     *)
(***************************************************************************)
\* the occurrences of the narrator idx that were counted as resolved
ResolvedOccurrences(idx) ==
    {e \in KinOccurrences : kin_chains[e.c][2][e.pos + 1] = idx /\ e.name /= <<>>}

\* the sum of len(data['resolved_in_chains']), the resolutionCount of main,
\* over the entries of resolutions from the i-th on
RECURSIVE ResolutionCountFrom(_, _)
ResolutionCountFrom(resolutions, i) ==
    IF i > Len(resolutions) THEN 0
    ELSE Len(resolutions[i][2].resolved_in_chains) + ResolutionCountFrom(resolutions, i + 1)

\* C30: for every kinship identity, resolved_in_chains holds as many
\* resolutions as occurrences of the identity were counted as resolved, the
\* sum of the resolution counts is stats['resolved'], and no identity has
\* more than 10 contexts
C30_ResolutionAccounting ==
    /\ \A k \in 1..Len(kin_resolutions) :
          /\ Len(kin_resolutions[k][2].resolved_in_chains)
                = Cardinality(ResolvedOccurrences(kin_resolutions[k][1]))
          /\ Len(kin_resolutions[k][2].contexts) <= MaxContexts
    /\ ResolutionCountFrom(kin_resolutions, 1) = kin_stats.resolved

====
